---- MODULE Spec2Model ----
(***************************************************************************)
(* A model of RedbackTechClient (src/src/redbacktechpy/redbacktech_client.py) *)
(* as a state machine: the client's fields, the vendor's cloud state, a    *)
(* wall clock, and one action per public operation of the client.  An      *)
(* operation runs to its return or to the first exception it raises; the   *)
(* vendor's answer to each HTTP call is an input of the operation.         *)
(***************************************************************************)
EXTENDS Integers, Sequences, FiniteSets, TLC

(* ------------------------------------------------------------------ *)
(* Bounds of the model                                                  *)
(* ------------------------------------------------------------------ *)
MaxTicks == 1
MaxDevices == 2
MaxSchedules == 1
MaxLeaked == 1
MaxOps == 2
MaxOpsLong == 3
MaxNormSchedules == 2
MaxTasks == 2
MaxTaskOps == 1

(* ------------------------------------------------------------------ *)
(* Program constants                                                    *)
(* ------------------------------------------------------------------ *)
TokenMargin == 3600
RefreshMargin == 10
HttpOk == 200

\* DEVICEINFOREFRESH, AUTH_ERROR_CODES and INVERTER_MODES are imported from
\* .constants (lines 11-20), a file the source tree at hand does not hold; the
\* values below stand for theirs.
DEVICEINFOREFRESH == 1800
AUTH_ERROR_CODES == {"invalid_client"}
INVERTER_MODES == <<"Auto", "ChargeBattery", "DischargeBattery">>

(* The clock advances in steps of TimeStep seconds. *)
TimeStep == TokenMargin \div 2

(* ------------------------------------------------------------------ *)
(* Values                                                               *)
(* ------------------------------------------------------------------ *)
\* Python's None and a present value x, for the fields that may be None.
None == <<>>
Some(x) == <<x>>
IsNone(o) == o = <<>>
Val(o) == o[1]
\* An attribute that was never assigned is None here too: reading it raises
\* AttributeError.

\* Serial numbers are strings, modelled as sequences of characters.
\* The first two give the same device id.
SerialList ==
    << <<"R", "B", "X", "9", "A", "1">>,
       <<"S", "C", "x", "9", "a", "1">>,
       <<"R", "B", "X", "9", "B", "2">> >>

Serials == {SerialList[i] : i \in DOMAIN SerialList}

\* str.lower() on one character.
LowerChar(ch) ==
    CASE ch = "A" -> "a"
      [] ch = "B" -> "b"
      [] ch = "C" -> "c"
      [] ch = "R" -> "r"
      [] ch = "S" -> "s"
      [] ch = "X" -> "x"
      [] OTHER -> ch

Lower(s) == [i \in 1..Len(s) |-> LowerChar(s[i])]

\* s[-4:]
Last4(s) == IF Len(s) <= 4 THEN s ELSE SubSeq(s, Len(s) - 3, Len(s))

InvSuffix == <<"i", "n", "v">>
BatSuffix == <<"b", "a", "t">>

\* id_temp = Id[-4:] + suffix; id_temp = id_temp.lower()
DeviceId(serial, suffix) == Lower(Last4(serial) \o suffix)

\* dict.update([(k, v)])
DictPut(d, k, v) == [x \in (DOMAIN d) \cup {k} |-> IF x = k THEN v ELSE d[x]]
EmptyDict == [x \in {} |-> 0]

(* ------------------------------------------------------------------ *)
(* State                                                                *)
(* ------------------------------------------------------------------ *)
VARIABLES
    now,                        \* the wall clock, datetime.now(), in seconds
    nodes,                      \* vendor: the account's inverter serial numbers
    vendor_schedules,           \* vendor: the schedules it holds
    token,                      \* self.token
    token_expiration,           \* self.token_expiration
    serial_numbers,             \* self.serial_numbers
    u_serial_numbers,           \* self._serial_numbers
    serial_number,              \* self.serial_number
    ross_version,               \* self.ross_version
    session1,                   \* self._session1
    session2,                   \* self._session2
    leaked,                     \* portal sessions left open and no longer referenced
    GAFToken,                   \* self._GAFToken
    device_info_refresh_time,   \* self._device_info_refresh_time
    redback_entities,           \* self._redback_entities
    redback_device_info,        \* self._redback_device_info
    redback_numbers,            \* self._redback_numbers
    redback_selects,            \* self._redback_selects
    redback_schedule_datetime,  \* self._redback_schedule_datetime
    redback_schedules,          \* self._redback_schedules
    redback_site_load,          \* self._redback_site_load
    inverter_control_settings,  \* self._inverter_control_settings
    redback_schedule_selected,  \* self._redback_schedule_selected
    redback_temp_voltage,       \* self._redback_temp_voltage
    lastOp,                     \* the last operation: its name, arguments, result and the calls it made
    ops,                        \* the number of operations called so far
    faulty,                     \* whether the vendor of this run may fail a request
    tasks                       \* the calls in progress on the event loop, one per task

vars ==
    << now, nodes, vendor_schedules, token, token_expiration, serial_numbers,
       u_serial_numbers, serial_number, ross_version, session1, session2, leaked,
       GAFToken, device_info_refresh_time, redback_entities, redback_device_info,
       redback_numbers, redback_selects, redback_schedule_datetime,
       redback_schedules, redback_site_load, inverter_control_settings,
       redback_schedule_selected, redback_temp_voltage, lastOp, ops, faulty, tasks >>

\* The client and the vendor as one record, threaded through the calls of an
\* operation.  err is the exception in flight ("none" when there is none);
\* trace lists the token checks and the HTTP requests of the operation in order;
\* ncalls counts its HTTP requests.
Self ==
    [ now |-> now, vendor_schedules |-> vendor_schedules,
      token |-> token, token_expiration |-> token_expiration,
      serial_numbers |-> serial_numbers, u_serial_numbers |-> u_serial_numbers,
      serial_number |-> serial_number, ross_version |-> ross_version,
      session1 |-> session1, session2 |-> session2, leaked |-> leaked,
      GAFToken |-> GAFToken,
      device_info_refresh_time |-> device_info_refresh_time,
      redback_entities |-> redback_entities,
      redback_device_info |-> redback_device_info,
      redback_numbers |-> redback_numbers,
      redback_selects |-> redback_selects,
      redback_schedule_datetime |-> redback_schedule_datetime,
      redback_schedules |-> redback_schedules,
      redback_site_load |-> redback_site_load,
      inverter_control_settings |-> inverter_control_settings,
      redback_schedule_selected |-> redback_schedule_selected,
      redback_temp_voltage |-> redback_temp_voltage,
      op |-> ops,
      err |-> "none", trace |-> <<>>, ncalls |-> 0, rebuilt |-> FALSE ]

Raise(c, e) == [c EXCEPT !.err = e]

(* ------------------------------------------------------------------ *)
(* The vendor's answers                                                 *)
(* ------------------------------------------------------------------ *)
\* An HTTP response of the API: its status, whether its body decodes as JSON,
\* and the body's "error" field when it has one.
GoodResponse == [status |-> HttpOk, json |-> TRUE, error |-> None]

Responses ==
    { r \in [status : {HttpOk, 500}, json : BOOLEAN,
             error : {None, Some("invalid_client"), Some("server_error")}] :
        ~r.json => IsNone(r.error) }

BadResponses == Responses \ {GoodResponse}

\* The lifetimes the vendor gives a token (expires_in, seconds).
ExpiresIn == {TokenMargin, 2 * TokenMargin}

(* ------------------------------------------------------------------ *)
(* API transport                                                        *)
(* ------------------------------------------------------------------ *)
\* Every operator below that takes the record c does nothing when an exception
\* is in flight (c.err is not "none"): the statements after a raise do not run.

\* _api_response: "ok" when the decoded body is returned, else the exception.
api_response_authfirst(resp) ==
    IF resp.json /\ ~IsNone(resp.error) /\ Val(resp.error) \in AUTH_ERROR_CODES
    THEN "AuthError"
    ELSE IF resp.status # HttpOk \/ ~resp.json \/ ~IsNone(resp.error)
    THEN "RedbackTechClientError"
    ELSE "ok"

api_response(resp) ==
    IF resp.status # HttpOk THEN "RedbackTechClientError"
    ELSE IF ~resp.json THEN "RedbackTechClientError"
    ELSE IF ~IsNone(resp.error)
    THEN IF Val(resp.error) \in AUTH_ERROR_CODES
         THEN "AuthError"
         ELSE "RedbackTechClientError"
    ELSE "ok"

\* Whether the token held is present with TokenMargin seconds or more left.
TokenValid(c) ==
    /\ ~IsNone(c.token)
    /\ ~IsNone(c.token_expiration)
    /\ Val(c.token_expiration) - c.now >= TokenMargin

\* The answer to the next request of the operation: env.resp when it is the
\* request numbered env.failAt, a good answer otherwise.
Answer(c, env) == IF env.failAt = c.ncalls + 1 THEN env.resp ELSE GoodResponse

\* One request on session1 (the body of _api_get, _api_post, _api_post_json and
\* _api_delete).  A closed session refuses the request with a RuntimeError.
api_request(c, env, method, endpoint, target, auth) ==
    IF c.err # "none" THEN c
    ELSE IF c.session1 = "closed"
    THEN [c EXCEPT
            !.trace = Append(@,
                [ kind |-> "refused", method |-> method, endpoint |-> endpoint,
                  target |-> target, auth |-> auth, valid |-> TokenValid(c) ]),
            !.err = "RuntimeError"]
    ELSE [c EXCEPT
            !.ncalls = @ + 1,
            !.trace = Append(@,
                [ kind |-> "request", method |-> method, endpoint |-> endpoint,
                  target |-> target, auth |-> auth, resp |-> Answer(c, env),
                  out |-> api_response(Answer(c, env)), valid |-> TokenValid(c) ]),
            !.err = IF api_response(Answer(c, env)) = "ok" THEN "none"
                    ELSE api_response(Answer(c, env))]

api_get(c, env, endpoint, target, auth) ==
    api_request(c, env, "GET", endpoint, target, auth)

api_post(c, env, endpoint, target, auth) ==
    api_request(c, env, "POST", endpoint, target, auth)

api_post_json(c, env, endpoint, target, auth) ==
    api_request(c, env, "POST", endpoint, target, auth)

api_delete(c, env, endpoint, target, auth) ==
    api_request(c, env, "DELETE", endpoint, target, auth)

(* ------------------------------------------------------------------ *)
(* Auth manager: the API token                                          *)
(* ------------------------------------------------------------------ *)
\* The assignments of _api_login after the response: the token and its expiry
\* are those of the answer.
store_token_before_response(c, env) ==
    [c EXCEPT !.token = Some([issued |-> c.now, expires_in |-> env.expires_in]),
              !.token_expiration = IF c.err # "none" THEN @
                                   ELSE Some(c.now + env.expires_in)]

store_token(c, env) ==
    IF c.err # "none" THEN c
    ELSE [c EXCEPT !.token = Some([issued |-> c.now, expires_in |-> env.expires_in]),
                   !.token_expiration = Some(c.now + env.expires_in)]

\* _api_login
api_login(c, env) == store_token(api_post(c, env, "API_AUTH", None, None), env)

\* The branch of _check_token: TRUE when it logs in.
check_token_needs_login_le(c) ==
    IF IsNone(IF ~IsNone(c.token) THEN c.token ELSE c.token_expiration)
    THEN TRUE
    ELSE Val(c.token_expiration) - c.now <= TokenMargin

check_token_needs_login(c) ==
    IF IsNone(IF ~IsNone(c.token) THEN c.token ELSE c.token_expiration)
    THEN TRUE
    ELSE Val(c.token_expiration) - c.now < TokenMargin

\* The entry of a token check in the trace: what it saw.
log_check(c) ==
    [c EXCEPT !.trace = Append(@,
        [ kind |-> "check", token |-> c.token,
          token_expiration |-> c.token_expiration, now |-> c.now ])]

\* _check_token
check_token(c, env) ==
    IF c.err # "none" THEN c
    ELSE IF check_token_needs_login(c) THEN api_login(log_check(c), env)
    ELSE log_check(c)

(* ------------------------------------------------------------------ *)
(* The vendor's payloads                                                *)
(* ------------------------------------------------------------------ *)
S1 == <<"R", "B", "X", "9", "A", "1">>
S2 == <<"S", "C", "x", "9", "a", "1">>

\* Static payload of a serial number; the fields the client branches or indexes
\* on are modelled, the others are passed through and stand as "payload".
\* S1 has a battery of one module and three phases, S2 has no battery and one
\* phase, the third serial has no battery and one phase that reports no voltage.
StaticPayload(serial) ==
    [ Id |-> serial,
      BatteryCount |-> IF serial = S1 THEN 1 ELSE 0,
      BatteryModels |-> IF serial = S1 THEN <<"Unknown">> ELSE <<>>,
      SoftwareVersion |-> IF serial = S1 THEN "sw1" ELSE "sw2",
      BatteryCapacitykWh |-> 10 ]

Phase(id, volts, amps, exported, imported) ==
    [ Id |-> id, VoltageInstantaneousV |-> volts, CurrentInstantaneousA |-> amps,
      ActiveExportedPowerInstantaneouskW |-> exported,
      ActiveImportedPowerInstantaneouskW |-> imported ]

\* Dynamic payload of a serial number.  Voltages are in volts, currents in
\* amperes, powers in watts, energies in kWh, states of charge in percent.
DynamicPayload(serial) ==
    [ PvPowerInstantaneouskW |-> IF serial = S1 THEN 1500 ELSE 700,
      PvAllTimeEnergykWh |-> IF serial = S1 THEN Some(1500) ELSE None,
      ExportAllTimeEnergykWh |-> Some(250),
      ImportAllTimeEnergykWh |-> IF serial = S2 THEN None ELSE Some(4000),
      LoadAllTimeEnergykWh |-> Some(0),
      BatteryChargeAllTimeEnergykWh |-> Some(1200),
      BatteryDischargeAllTimeEnergykWh |-> None,
      PVs |-> IF serial = S1 THEN <<"pv", "pv">> ELSE <<"pv">>,
      Phases |->
          IF serial = S1
          THEN << Phase("A", Some(230), 4, 0, 900), Phase("B", Some(230), 2, 300, 0),
                  Phase("C", Some(230), 1, 0, 200) >>
          ELSE IF serial = S2
          THEN << Phase("A", Some(240), 3, 100, 0) >>
          ELSE << Phase("A", None, 0, 0, 0) >>,
      BatteryPowerNegativeIsChargingkW |-> 0 - 2000,
      BatterySoCInstantaneous0to1 |-> 80,
      Modules |-> << [ CurrentNegativeIsChargingA |-> 0 - 40, VoltageV |-> 50,
                       PowerNegativeIsChargingkW |-> 0 - 2000, SoC0To1 |-> 80 ] >>,
      Cabinets |-> << [ TemperatureC |-> 25, FanState |-> "Off" ] >> ]

\* The dynamic payload the vendor answers with at time t: the phase voltages
\* drift by VoltageDrift volts each TimeStep.
VoltageDrift == 10

DynamicPayloadAt(t, serial) ==
    [DynamicPayload(serial) EXCEPT
        !.Phases = [i \in DOMAIN @ |->
            IF IsNone(@[i].VoltageInstantaneousV) THEN @[i]
            ELSE [@[i] EXCEPT !.VoltageInstantaneousV =
                    Some(Val(@) + VoltageDrift * (t \div TimeStep))]]]

\* Config payload of a serial number (minimum states of charge, percent).
ConfigPayload(serial) == [MinSoC0to1 |-> 10, MinOffgridSoC0to1 |-> 20]

\* The schedules payload of a serial number: the vendor's schedules for it, in
\* the order of their ids.
RECURSIVE SortedSchedules(_)
SortedSchedules(S) ==
    IF S = {} THEN <<>>
    ELSE LET m == CHOOSE x \in S : \A y \in S : x.ScheduleId <= y.ScheduleId
         IN  <<m>> \o SortedSchedules(S \ {m})

SchedulesPayload(c, serial) ==
    SortedSchedules({x \in c.vendor_schedules : x.SerialNumber = serial})

(* ------------------------------------------------------------------ *)
(* Arithmetic of the normalizer                                         *)
(* ------------------------------------------------------------------ *)
\* floor(sqrt(n)) by bisection on lo..hi, for lo * lo <= n < (hi + 1) * (hi + 1).
RECURSIVE ISqrtIn(_, _, _)
ISqrtIn(n, lo, hi) ==
    IF lo >= hi THEN lo
    ELSE LET mid == (lo + hi + 1) \div 2
         IN  IF mid * mid <= n THEN ISqrtIn(n, mid, hi) ELSE ISqrtIn(n, lo, mid - 1)


\* round(a / b) for b > 0, halves up.
RoundDiv(a, b) == (2 * a + b) \div (2 * b)

\* round(phase_voltage_sum / phase_count * sqrt(phase_count), 1), in tenths of a
\* volt: the integer nearest to 10 * sum / sqrt(count).
TotalVoltage(phase_voltage_sum, phase_count) ==
    (ISqrtIn((400 * phase_voltage_sum * phase_voltage_sum) \div phase_count,
             0, 20 * phase_voltage_sum) + 1) \div 2

\* kWh / 1000, kept as a fraction.
Div1000(kwh) == [num |-> kwh, den |-> 1000]

(* ------------------------------------------------------------------ *)
(* Response normalizer                                                  *)
(* ------------------------------------------------------------------ *)
Ent(value, entity_name, device_id, device_type) ==
    [ value |-> value, entity_name |-> entity_name, device_id |-> device_id,
      device_type |-> device_type ]

\* The id the facade gives a record: device_id + entity_name.  Every device id
\* of the model has the same length, so two concatenations are equal exactly
\* when the two pairs are.
EntityId(e) == <<e.device_id, e.entity_name>>

\* The entities whose value is a field of the payload passed through.
PassThrough(names, device_id, device_type) ==
    [i \in 1..Len(names) |-> Ent("payload", names[i], device_id, device_type)]

\* kWh counter to MWh entity: the None branch passes the None through.
EnergyEntity_truthy(kwh, entity_name, device_id, device_type) ==
    IF ~IsNone(kwh) /\ Val(kwh) # 0
    THEN Ent(Some(Div1000(Val(kwh))), entity_name, device_id, device_type)
    ELSE Ent(None, entity_name, device_id, device_type)

EnergyEntity(kwh, entity_name, device_id, device_type) ==
    IF ~IsNone(kwh)
    THEN Ent(Some(Div1000(Val(kwh))), entity_name, device_id, device_type)
    ELSE Ent(kwh, entity_name, device_id, device_type)

InverterStaticNames ==
    << "model_name", "serial_number", "latitude", "longitude", "network_connection",
       "approved_capacity_w", "generation_hard_limit_va", "generation_soft_limit_va",
       "export_hard_limit_kw", "export_soft_limit_kw", "site_export_limit_kw",
       "pv_panel_model", "pv_panel_size_kw", "system_type",
       "inverter_max_export_power_kw", "inverter_max_import_power_kw",
       "commissioning_date", "nmi", "site_id", "inverter_site_type", "battery_count",
       "software_version", "firmware_version", "timestamp_utc",
       "frequency_instantaneous", "pv_power_instantaneous_kw",
       "inverter_temperature_c" >>

InverterStatusNames == <<"status", "power_mode_inverter_mode", "power_mode_power_w">>

\* The three entities of the PV input numbered pvId.
PvEntities(pvId, id_temp) ==
    PassThrough(<< "mppt_" \o ToString(pvId) \o "_current_a",
                   "mppt_" \o ToString(pvId) \o "_voltage_v",
                   "mppt_" \o ToString(pvId) \o "_power_kw" >>, id_temp, "inverter")

RECURSIVE AllPvEntities(_, _, _)
AllPvEntities(pvs, pvId, id_temp) ==
    IF pvId > Len(pvs) THEN <<>>
    ELSE PvEntities(pvId, id_temp) \o AllPvEntities(pvs, pvId + 1, id_temp)

\* The six entities of one phase.
PhaseEntities(phase, id_temp) ==
    LET pre == "inverter_phase_" \o LowerChar(phase.Id)
    IN  << Ent(phase.ActiveExportedPowerInstantaneouskW,
               pre \o "_active_exported_power_instantaneous_kw", id_temp, "inverter"),
           Ent(phase.ActiveImportedPowerInstantaneouskW,
               pre \o "_active_imported_power_instantaneous_kw", id_temp, "inverter"),
           Ent(phase.ActiveImportedPowerInstantaneouskW
                   - phase.ActiveExportedPowerInstantaneouskW,
               pre \o "_active_net_power_instantaneous_kw", id_temp, "inverter"),
           Ent(phase.VoltageInstantaneousV,
               pre \o "_voltage_instantaneous_v", id_temp, "inverter"),
           Ent(phase.CurrentInstantaneousA,
               pre \o "_current_instantaneous_a", id_temp, "inverter"),
           Ent("payload",
               pre \o "_power_factor_instantaneous_minus_1to1", id_temp, "inverter") >>

RECURSIVE AllPhaseEntities(_, _, _)
AllPhaseEntities(phases, i, id_temp) ==
    IF i > Len(phases) THEN <<>>
    ELSE PhaseEntities(phases[i], id_temp) \o AllPhaseEntities(phases, i + 1, id_temp)

\* The sums of the phase loop: only the phases that report a voltage count.
RECURSIVE PhaseSums(_, _)
PhaseSums(phases, i) ==
    IF i > Len(phases)
    THEN [count |-> 0, voltage |-> 0, current |-> 0, exported |-> 0, imported |-> 0,
          net |-> 0]
    ELSE LET r == PhaseSums(phases, i + 1)
             ph == phases[i]
         IN  IF ~IsNone(ph.VoltageInstantaneousV)
             THEN [ count |-> r.count + 1,
                    voltage |-> r.voltage + Val(ph.VoltageInstantaneousV),
                    current |-> r.current + ph.CurrentInstantaneousA,
                    exported |-> r.exported + ph.ActiveExportedPowerInstantaneouskW,
                    imported |-> r.imported + ph.ActiveImportedPowerInstantaneouskW,
                    net |-> r.net + (ph.ActiveImportedPowerInstantaneouskW
                                       - ph.ActiveExportedPowerInstantaneouskW) ]
             ELSE r

\* self._redback_temp_voltage[Id] = ...: the aggregate of this normalization
\* replaces the one stored before.
store_temp_voltage_keep(voltages, id, total_v) ==
    IF id \in DOMAIN voltages THEN voltages ELSE DictPut(voltages, id, total_v)

store_temp_voltage(voltages, id, total_v) ==
    DictPut(voltages, id, total_v)

\* _convert_responses_to_inverter_entities(data, data2)
convert_responses_to_inverter_entities(c, data, data2) ==
    IF c.err # "none" THEN c ELSE
    LET id_temp == DeviceId(data.Id, InvSuffix)
        sums == PhaseSums(data2.Phases, 1)
        upto_phases ==
            c.redback_entities
              \o PassThrough(InverterStaticNames, id_temp, "inverter")
              \o << EnergyEntity(data2.PvAllTimeEnergykWh, "pv_all_time_energy_mwh",
                                 id_temp, "inverter"),
                    EnergyEntity(data2.ExportAllTimeEnergykWh,
                                 "export_all_time_energy_mwh", id_temp, "inverter"),
                    EnergyEntity(data2.ImportAllTimeEnergykWh,
                                 "import_all_time_energy_mwh", id_temp, "inverter"),
                    EnergyEntity(data2.LoadAllTimeEnergykWh, "load_all_time_energy_mwh",
                                 id_temp, "inverter") >>
              \o PassThrough(InverterStatusNames, id_temp, "inverter")
              \o AllPvEntities(data2.PVs, 1, id_temp)
              \o AllPhaseEntities(data2.Phases, 1, id_temp)
    IN  IF sums.count = 0
        THEN [c EXCEPT !.redback_entities = upto_phases, !.err = "ZeroDivisionError"]
        ELSE LET total_v == TotalVoltage(sums.voltage, sums.count)
             IN  [c EXCEPT
                    !.redback_temp_voltage = store_temp_voltage(@, data.Id, total_v),
                    !.redback_entities = upto_phases \o
                      << Ent(total_v, "inverter_phase_total_voltage_instantaneous_v",
                             id_temp, "inverter"),
                         Ent(sums.current, "inverter_phase_total_current_instantaneous_a",
                             id_temp, "inverter"),
                         Ent(sums.exported,
                             "inverter_phase_total_active_exported_power_instantaneous_kw",
                             id_temp, "inverter"),
                         Ent(sums.imported,
                             "inverter_phase_total_active_imported_power_instantaneous_kw",
                             id_temp, "inverter"),
                         Ent(sums.net,
                             "inverter_phase_total_active_net_power_instantaneous_kw",
                             id_temp, "inverter") >>,
                    !.redback_site_load =
                        DictPut(@, data.Id, sums.net + data2.PvPowerInstantaneouskW) ]

\* The Duration of a schedule on the wire, "D.HH:MM:SS" or "HH:MM:SS", as its
\* fields: dotted says whether the day part is there.
WireDuration(dotted, days, hh, mm) ==
    [dotted |-> dotted, days |-> days, hh |-> hh, mm |-> mm, ss |-> 0]

\* The characters of decimal numbers.
Digits == <<"0", "1", "2", "3", "4", "5", "6", "7", "8", "9">>
DigitValue(ch) == CHOOSE d \in 0..9 : Digits[d + 1] = ch

\* str(n) for n >= 0
RECURSIVE Str(_)
Str(n) == IF n < 10 THEN <<Digits[n + 1]>> ELSE Str(n \div 10) \o <<Digits[(n % 10) + 1]>>

\* int(s) of a string of digits
RECURSIVE ParseInt(_)
ParseInt(s) ==
    IF Len(s) = 0 THEN 0
    ELSE 10 * ParseInt(SubSeq(s, 1, Len(s) - 1)) + DigitValue(s[Len(s)])

TwoDigits(n) == <<Digits[((n \div 10) % 10) + 1], Digits[(n % 10) + 1]>>

\* The string the vendor sends for a Duration: "D.HH:MM:SS" or "HH:MM:SS".
DurationText(w) ==
    (IF w.dotted THEN Str(w.days) \o <<".">> ELSE <<>>)
      \o TwoDigits(w.hh) \o <<":">> \o TwoDigits(w.mm) \o <<":">> \o TwoDigits(w.ss)

\* s.find(ch): the first index of ch in s, counted from 0, or -1
Find(s, ch) ==
    IF \E i \in DOMAIN s : s[i] = ch
    THEN (CHOOSE i \in DOMAIN s : s[i] = ch /\ \A j \in 1..(i - 1) : s[j] # ch) - 1
    ELSE -1

\* s.split(ch)
RECURSIVE Split(_, _)
Split(s, ch) ==
    IF Find(s, ch) = -1 THEN <<s>>
    ELSE <<SubSeq(s, 1, Find(s, ch))>> \o Split(SubSeq(s, Find(s, ch) + 2, Len(s)), ch)

\* The minutes the schedule normalizer reads from a Duration, days left out.
ParseDuration_nodays(w) ==
    LET s == DurationText(w)
        rest == IF Find(s, ".") > -1 THEN Split(s, ".")[2] ELSE s
    IN  ParseInt(Split(rest, ":")[1]) * 60 + ParseInt(Split(rest, ":")[2])

\* The minutes the schedule normalizer reads from a Duration.
ParseDuration(w) ==
    LET s == DurationText(w)
        days == IF Find(s, ".") > -1 THEN ParseInt(Split(s, ".")[1]) * 24 * 60 ELSE 0
        rest == IF Find(s, ".") > -1 THEN Split(s, ".")[2] ELSE s
    IN  ParseInt(Split(rest, ":")[1]) * 60 + ParseInt(Split(rest, ":")[2]) + days

\* One record of the schedule list, its end_time without the timedelta.
schedule_record_no_timedelta(schedule, id_temp) ==
    [ schedule_id |-> schedule.ScheduleId,
      serial_number |-> schedule.SerialNumber,
      start_time_utc |-> schedule.StartTimeUtc,
      end_time |-> schedule.StartTimeUtc,
      duration |-> ParseDuration(schedule.Duration),
      inverter_mode |-> schedule.DesiredMode.InverterMode,
      power_w |-> schedule.DesiredMode.ArgumentInWatts,
      device_id |-> id_temp,
      device_type |-> "inverter" ]

\* One record of the schedule list; times are in seconds.
schedule_record(schedule, id_temp) ==
    [ schedule_id |-> schedule.ScheduleId,
      serial_number |-> schedule.SerialNumber,
      start_time_utc |-> schedule.StartTimeUtc,
      end_time |-> schedule.StartTimeUtc + 60 * ParseDuration(schedule.Duration),
      duration |-> ParseDuration(schedule.Duration),
      inverter_mode |-> schedule.DesiredMode.InverterMode,
      power_w |-> schedule.DesiredMode.ArgumentInWatts,
      device_id |-> id_temp,
      device_type |-> "inverter" ]

\* Whether a Duration is the string of the wire; the normalizer overwrites it
\* in the payload with its minutes, an int.
IsWire(duration) == "dotted" \in DOMAIN duration
Minutes(n) == [minutes |-> n]

\* The first schedule from i on whose Duration is no string: schedule['Duration']
\* .find('.') raises AttributeError there.  Len(data) + 1 when there is none.
RECURSIVE first_not_wire(_, _)
first_not_wire(data, i) ==
    IF i > Len(data) THEN i
    ELSE IF ~IsWire(data[i].Duration) THEN i
    ELSE first_not_wire(data, i + 1)

\* _convert_responses_to_schedule_entities(data): data is the Schedules list.
convert_responses_to_schedule_entities(c, data) ==
    IF c.err # "none" THEN c ELSE
    IF Len(data) = 0 THEN c
    ELSE LET id_temp == DeviceId(data[1].SerialNumber, InvSuffix)
             k == first_not_wire(data, 1)
         IN  [c EXCEPT
                !.redback_schedules =
                    IF k = 1 THEN @
                    ELSE @ \o [i \in 1..(k - 1) |-> schedule_record(data[i], id_temp)],
                !.err = IF k <= Len(data) THEN "AttributeError" ELSE "none"]

\* The Schedules list after _convert_responses_to_schedule_entities(data): each
\* schedule the loop got through has its Duration replaced by its minutes.
schedules_after_convert(data) ==
    [i \in 1..Len(data) |->
        IF i < first_not_wire(data, 1)
        THEN [data[i] EXCEPT !.Duration = Minutes(ParseDuration(@))]
        ELSE data[i]]

\* The Control Setting a device gets the first time it is referenced.
DefaultControlSetting(c) ==
    [ power_setting_watts |-> 0, power_setting_duration |-> 0,
      power_setting_mode |-> "Auto", start_time |-> c.now ]

\* if self._inverter_control_settings.get(id_temp) is None: ...update(...)
init_control_settings_always(c, id_temp) ==
    [c EXCEPT !.inverter_control_settings = DictPut(@, id_temp, DefaultControlSetting(c))]

init_control_settings(c, id_temp) ==
    IF id_temp \notin DOMAIN c.inverter_control_settings
    THEN [c EXCEPT !.inverter_control_settings =
                      DictPut(@, id_temp, DefaultControlSetting(c))]
    ELSE c

\* _create_number_entities(data)
create_number_entities(c, data) ==
    IF c.err # "none" THEN c ELSE
    LET id_temp == DeviceId(data.Id, InvSuffix)
        c1 == init_control_settings(c, id_temp)
        cs == c1.inverter_control_settings[id_temp]
    IN  [c1 EXCEPT !.redback_numbers = @ \o
           << Ent(cs.power_setting_duration, "power_setting_duration", id_temp, "inverter"),
              Ent(cs.power_setting_watts, "power_setting_watts", id_temp, "inverter") >>]

\* if self._redback_schedule_selected.get(id_temp) is None: ...update(...)
init_schedule_selected_always(c, id_temp) ==
    [c EXCEPT !.redback_schedule_selected = DictPut(@, id_temp, [schedule_id |-> None])]

init_schedule_selected(c, id_temp) ==
    IF id_temp \notin DOMAIN c.redback_schedule_selected
    THEN [c EXCEPT !.redback_schedule_selected =
                      DictPut(@, id_temp, [schedule_id |-> None])]
    ELSE c

\* _create_select_entities' own default: a Control Setting without start_time.
init_control_settings_select(c, id_temp) ==
    IF id_temp \notin DOMAIN c.inverter_control_settings
    THEN [c EXCEPT !.inverter_control_settings =
                      DictPut(@, id_temp,
                              [ power_setting_watts |-> 0, power_setting_duration |-> 0,
                                power_setting_mode |-> "Auto" ])]
    ELSE c

\* The schedule ids of the records of device id_temp, in list order.
RECURSIVE schedule_options(_, _, _)
schedule_options(schedules, i, id_temp) ==
    IF i > Len(schedules) THEN <<>>
    ELSE (IF schedules[i].device_id = id_temp THEN <<schedules[i].schedule_id>> ELSE <<>>)
           \o schedule_options(schedules, i + 1, id_temp)

\* _create_select_entities(data, data2)
create_select_entities(c, data) ==
    IF c.err # "none" THEN c ELSE
    LET id_temp == DeviceId(data.Id, InvSuffix)
        c1 == init_control_settings_select(c, id_temp)
        c2 == init_schedule_selected(c1, id_temp)
        mode == [ value |-> c1.inverter_control_settings[id_temp].power_setting_mode,
                  entity_name |-> "power_setting_mode", device_id |-> id_temp,
                  device_type |-> "inverter", options |-> INVERTER_MODES ]
        selected == [ value |-> c2.redback_schedule_selected[id_temp].schedule_id,
                      entity_name |-> "schedule_id_selected", device_id |-> id_temp,
                      device_type |-> "inverter",
                      options |-> schedule_options(c2.redback_schedules, 1, id_temp) ]
    IN  [c2 EXCEPT !.redback_selects = @ \o <<mode, selected>>]

\* _create_datetime_entities(data)
create_datetime_entities(c, data) ==
    IF c.err # "none" THEN c ELSE
    LET id_temp == DeviceId(data.Id, InvSuffix)
        c1 == init_control_settings(c, id_temp)
    IN  [c1 EXCEPT !.redback_schedule_datetime = Append(@,
            Ent(c1.inverter_control_settings[id_temp].start_time,
                "schedule_create_start_time", id_temp, "inverter"))]

\* _create_device_info_inverter / _create_device_info_battery
device_info_record(data, suffix) ==
    [ identifiers |-> DeviceId(data.Id, suffix),
      sw_version |-> data.SoftwareVersion,
      serial_number |-> data.Id ]

create_device_info_inverter(c, data) ==
    IF c.err # "none" THEN c ELSE
    [c EXCEPT !.redback_device_info = Append(@, device_info_record(data, InvSuffix))]

create_device_info_battery(c, data) ==
    IF c.err # "none" THEN c ELSE
    [c EXCEPT !.redback_device_info = Append(@, device_info_record(data, BatSuffix))]

BatteryStaticNames ==
    << "latitude", "longitude", "battery_max_charge_power_kw",
       "battery_max_discharge_power_kw", "battery_capacity_kwh",
       "battery_usable_capacity_kwh", "system_type", "commissioning_date", "site_id",
       "inverter_site_type", "model_name", "battery_count", "software_version",
       "firmware_version", "inverter_serial_number" >>

BatteryStateNames ==
    << "status", "battery_current_negative_is_charging_a", "battery_voltage_v",
       "battery_voltage_type", "battery_no_of_modules" >>

\* The five entities of the battery module numbered batteryId; batteryName is the
\* last model name seen that is not "Unknown".
ModuleEntities(module, batteryId, batteryName, id_temp) ==
    LET pre == "battery_" \o ToString(batteryId)
    IN  << Ent(batteryName, pre \o "_model", id_temp, "battery"),
           Ent(module.CurrentNegativeIsChargingA,
               pre \o "_current_negative_is_charging_a", id_temp, "battery"),
           Ent(module.VoltageV, pre \o "_voltage_v", id_temp, "battery"),
           Ent(module.PowerNegativeIsChargingkW,
               pre \o "_power_negative_is_charging_kw", id_temp, "battery"),
           Ent(module.SoC0To1, pre \o "_soc_0to1", id_temp, "battery") >>

RECURSIVE AllModuleEntities(_, _, _, _, _)
AllModuleEntities(models, modules, batteryId, batteryName, id_temp) ==
    IF batteryId > Len(models) THEN <<>>
    ELSE LET name == IF models[batteryId] # "Unknown" THEN models[batteryId]
                     ELSE batteryName
         IN  ModuleEntities(modules[batteryId], batteryId, name, id_temp)
               \o AllModuleEntities(models, modules, batteryId + 1, name, id_temp)

RECURSIVE AllCabinetEntities(_, _, _)
AllCabinetEntities(cabinets, cabinetId, id_temp) ==
    IF cabinetId > Len(cabinets) THEN <<>>
    ELSE << Ent(cabinets[cabinetId].TemperatureC,
                "battery_cabinet_" \o ToString(cabinetId) \o "_temperature_c",
                id_temp, "battery"),
            Ent(cabinets[cabinetId].FanState,
                "battery_cabinet_" \o ToString(cabinetId) \o "_fan_state",
                id_temp, "battery") >>
           \o AllCabinetEntities(cabinets, cabinetId + 1, id_temp)

\* _convert_responses_to_battery_entities(data, data2, soc_data).  The derived
\* charging current is round(power(kW) * 1000 / total phase voltage, 1), in
\* tenths of an ampere.
convert_responses_to_battery_entities(c, data, data2, soc_data) ==
    IF c.err # "none" THEN c ELSE
    LET id_temp == DeviceId(data.Id, BatSuffix)
        soc == data2.BatterySoCInstantaneous0to1
    IN  [c EXCEPT
          !.redback_entities = @
            \o << Ent(soc_data.MinSoC0to1, "min_soc_0_to_1", id_temp, "battery"),
                  Ent(soc_data.MinOffgridSoC0to1, "min_Offgrid_soc_0_to_1", id_temp,
                      "battery") >>
            \o PassThrough(BatteryStaticNames, id_temp, "battery")
            \o << Ent("payload", "timestamp_utc", id_temp, "inverter"),
                  Ent(soc, "battery_soc_instantaneous_0to1", id_temp, "battery"),
                  Ent(data2.BatteryPowerNegativeIsChargingkW,
                      "battery_power_negative_is_charging_kw", id_temp, "battery"),
                  EnergyEntity(data2.BatteryChargeAllTimeEnergykWh,
                               "battery_charge_all_time_energy_mwh", id_temp, "battery"),
                  EnergyEntity(data2.BatteryDischargeAllTimeEnergykWh,
                               "battery_discharge_all_time_energy_mwh", id_temp,
                               "battery") >>
            \o PassThrough(BatteryStateNames, id_temp, "battery")
            \o << Ent(data.BatteryCapacitykWh * soc, "battery_currently_stored_kwh",
                      id_temp, "battery"),
                  Ent(data.BatteryCapacitykWh * (soc - soc_data.MinSoC0to1),
                      "battery_currently_usable_kwh", id_temp, "battery") >>
            \o AllModuleEntities(data.BatteryModels, data2.Modules, 1, "Unknown", id_temp)
            \o << Ent(RoundDiv(data2.BatteryPowerNegativeIsChargingkW * 100,
                               c.redback_temp_voltage[data.Id]),
                      "battery_current_negative_is_charging_a", id_temp, "battery") >>
            \o AllCabinetEntities(data2.Cabinets, 1, id_temp),
          !.redback_site_load =
              DictPut(@, data.Id, @[data.Id] + data2.BatteryPowerNegativeIsChargingkW) ]

\* A Python value as passed to round(): a float, or a dict.
Float(x) == [type |-> "float", value |-> x]
Dict(d) == [type |-> "dict", value |-> d]

\* The five scheduled-annotation entities of a device.
RECURSIVE selected_schedule_entities(_, _, _, _)
selected_schedule_entities(schedules, i, selected, id_temp) ==
    IF i > Len(schedules) THEN <<>>
    ELSE (IF schedules[i].schedule_id = selected
          THEN << Ent(Some(schedules[i].start_time_utc), "scheduled_start_time",
                      id_temp, "inverter"),
                  Ent(Some(schedules[i].end_time), "scheduled_finish_time",
                      id_temp, "inverter"),
                  Ent(schedules[i].duration, "scheduled_duration", id_temp, "inverter"),
                  Ent(schedules[i].power_w, "scheduled_power_w", id_temp, "inverter"),
                  Ent(schedules[i].inverter_mode, "scheduled_inverter_mode", id_temp,
                      "inverter") >>
          ELSE <<>>)
         \o selected_schedule_entities(schedules, i + 1, selected, id_temp)

default_schedule_entities(id_temp) ==
    << Ent(None, "scheduled_start_time", id_temp, "inverter"),
       Ent(None, "scheduled_finish_time", id_temp, "inverter"),
       Ent(0, "scheduled_duration", id_temp, "inverter"),
       Ent(0, "scheduled_power_w", id_temp, "inverter"),
       Ent("Auto", "scheduled_inverter_mode", id_temp, "inverter") >>

\* _add_additional_entities(site_load_data, data): round(site_load_data, 3)
\* raises TypeError unless site_load_data is a number.
add_additional_entities(c, site_load_data, data) ==
    IF c.err # "none" THEN c ELSE
    LET id_temp == DeviceId(data.Id, InvSuffix)
        selected == c.redback_schedule_selected[id_temp].schedule_id
    IN  IF site_load_data.type # "float" THEN Raise(c, "TypeError")
        ELSE IF id_temp \notin DOMAIN c.redback_schedule_selected
        THEN [c EXCEPT
                !.redback_entities = Append(@,
                    Ent(site_load_data.value, "inverter_site_load_instantaneous_kw",
                        id_temp, "inverter")),
                !.err = "KeyError"]
        ELSE [c EXCEPT !.redback_entities = @
                \o << Ent(site_load_data.value, "inverter_site_load_instantaneous_kw",
                          id_temp, "inverter") >>
                \o (IF ~IsNone(selected)
                    THEN selected_schedule_entities(c.redback_schedules, 1,
                                                    Val(selected), id_temp)
                    ELSE default_schedule_entities(id_temp))]

(* ------------------------------------------------------------------ *)
(* Raw fetchers                                                         *)
(* ------------------------------------------------------------------ *)
\* The request of an authenticated fetcher, with the header built from the
\* token held when the request is built.
send_get(c, env, endpoint) ==
    IF c.err # "none" THEN c
    ELSE api_get(c, env, endpoint, c.serial_number, c.token)

\* The loop of _get_inverter_list over the sites and nodes of the answer: each
\* inverter is appended to the list self.serial_numbers holds by then.
store_serial_numbers(c) ==
    IF c.err # "none" THEN c ELSE [c EXCEPT !.serial_numbers = Some(Val(@) \o nodes)]

get_nodes(c, env) ==
    IF c.err # "none" THEN c ELSE api_get(c, env, "API_NODES", None, c.token)

\* _get_inverter_list
get_inverter_list(c, env) ==
    store_serial_numbers(
      get_nodes(check_token([c EXCEPT !.serial_numbers = Some(<<>>)], env), env))

\* _get_static_by_serial, _get_dynamic_by_serial, _get_schedules_by_serial: the
\* serial is recorded, the token checked, the header built, the request sent.
get_static_by_serial(c, env, serial) ==
    IF c.err # "none" THEN c
    ELSE send_get(check_token([c EXCEPT !.serial_number = Some(serial)], env),
                  env, "API_STATIC_BY_SERIAL")

get_dynamic_by_serial(c, env, serial) ==
    IF c.err # "none" THEN c
    ELSE send_get(check_token([c EXCEPT !.serial_number = Some(serial)], env),
                  env, "API_ENERGY_DYNAMIC_BY_SERIAL")

get_schedules_by_serial(c, env, serial) ==
    IF c.err # "none" THEN c
    ELSE send_get(check_token([c EXCEPT !.serial_number = Some(serial)], env),
                  env, "API_SCHEDULE_BY_SERIALNUMBER")

\* _get_config_by_serial: the serial is recorded, the header built, the request
\* sent.
get_config_by_serial(c, env, serial) ==
    IF c.err # "none" THEN c
    ELSE send_get([c EXCEPT !.serial_number = Some(serial)], env,
                  "API_CONFIG_BY_SERIAL")

(* ------------------------------------------------------------------ *)
(* Entity store and facade: the refresh                                 *)
(* ------------------------------------------------------------------ *)
\* What _check_device_info_refresh returns: None on the two branches that only
\* evaluate True, False on the third.
check_device_info_refresh(c) ==
    IF IsNone(c.device_info_refresh_time) THEN None
    ELSE IF Val(c.device_info_refresh_time) - c.now < RefreshMargin THEN None
    ELSE Some(FALSE)

\* Python's truth value of None, True or False.
Truthy(o) == ~IsNone(o) /\ Val(o)

\* self._redback_site_load[serial_number] = 0
zero_site_load(c, serial) ==
    IF c.err # "none" THEN c
    ELSE [c EXCEPT !.redback_site_load = DictPut(@, serial, 0)]

\* The schedules answer normalized: response3 is what the vendor holds.
normalize_schedules(c, serial) ==
    IF c.err # "none" THEN c
    ELSE convert_responses_to_schedule_entities(c, SchedulesPayload(c, serial))

\* The battery branch of the loop of _create_device_info.
battery_branch_always(c, env, response1, response2) ==
    IF c.err # "none" THEN c
    ELSE create_device_info_battery(
           convert_responses_to_battery_entities(
             get_config_by_serial(c, env, response1.Id),
             response1, response2, ConfigPayload(response1.Id)),
           response1)

battery_branch(c, env, response1, response2) ==
    IF c.err # "none" \/ ~(response1.BatteryCount > 0) THEN c
    ELSE create_device_info_battery(
           convert_responses_to_battery_entities(
             get_config_by_serial(c, env, response1.Id),
             response1, response2, ConfigPayload(response1.Id)),
           response1)

\* await self._add_additional_entities(self._redback_site_load, response1)
site_load_argument(c, serial) == Dict(c.redback_site_load)

call_add_additional_entities(c, response1) ==
    IF c.err # "none" THEN c
    ELSE add_additional_entities(c, site_load_argument(c, response1.Id), response1)

\* The body of the loop of _create_device_info for one serial number.
create_device_info_one(c, env, serial) ==
    create_device_info_inverter(
      call_add_additional_entities(
        create_datetime_entities(
          battery_branch(
            create_select_entities(
              create_number_entities(
                normalize_schedules(
                  convert_responses_to_inverter_entities(
                    zero_site_load(
                      get_schedules_by_serial(
                        get_dynamic_by_serial(
                          get_static_by_serial(c, env, serial),
                          env, serial),
                        env, serial),
                      serial),
                    StaticPayload(serial), DynamicPayloadAt(c.now, serial)),
                  serial),
                StaticPayload(serial)),
              StaticPayload(serial)),
            env, StaticPayload(serial), DynamicPayloadAt(c.now, serial)),
          StaticPayload(serial)),
        StaticPayload(serial)),
      StaticPayload(serial))

RECURSIVE create_device_info_loop(_, _, _, _)
create_device_info_loop(c, env, serials, i) ==
    IF c.err # "none" \/ i > Len(serials) THEN c
    ELSE create_device_info_loop(create_device_info_one(c, env, serials[i]),
                                 env, serials, i + 1)

\* The six lists _create_device_info empties before it rebuilds them.
clear_lists(c) ==
    [c EXCEPT !.redback_device_info = <<>>, !.redback_entities = <<>>,
              !.redback_schedules = <<>>, !.redback_numbers = <<>>,
              !.redback_selects = <<>>, !.redback_schedule_datetime = <<>>,
              !.rebuilt = TRUE]

\* self._serial_numbers = await self._get_inverter_list()
store_u_serial_numbers(c) ==
    IF c.err # "none" THEN c ELSE [c EXCEPT !.u_serial_numbers = c.serial_numbers]

\* The head of _create_device_info: the inverter list is fetched unless the
\* check returns a true value.
fetch_inverter_list_if_stale(c, env) ==
    IF ~Truthy(check_device_info_refresh(c))
    THEN store_u_serial_numbers(get_inverter_list(c, env))
    ELSE c

\* The rest of _create_device_info up to the end of its loop.
rebuild_lists(c, env) ==
    IF c.err # "none" THEN c
    ELSE IF IsNone(c.u_serial_numbers) THEN Raise(c, "AttributeError")
    ELSE create_device_info_loop(clear_lists(c), env, Val(c.u_serial_numbers), 1)

set_device_info_refresh_time(c) ==
    IF c.err # "none" THEN c
    ELSE [c EXCEPT !.device_info_refresh_time = Some(c.now + DEVICEINFOREFRESH)]

\* _create_device_info
create_device_info(c, env) ==
    set_device_info_refresh_time(rebuild_lists(fetch_inverter_list_if_stale(c, env), env))

\* The keys of the map the facade builds from a list.
Keys(list) == {EntityId(list[i]) : i \in 1..Len(list)}

\* get_redback_data: the maps returned, as their key sets.
returned_maps(c) ==
    [ entities |-> Keys(c.redback_entities),
      devices |-> {c.redback_device_info[i].identifiers :
                      i \in 1..Len(c.redback_device_info)},
      numbers |-> Keys(c.redback_numbers),
      selects |-> Keys(c.redback_selects),
      schedules |-> {c.redback_schedules[i].schedule_id :
                        i \in 1..Len(c.redback_schedules)},
      schedules_datetime_data |-> Keys(c.redback_schedule_datetime) ]

get_redback_data(c, env) == create_device_info(c, env)

(* ------------------------------------------------------------------ *)
(* Auth manager: the portal session                                     *)
(* ------------------------------------------------------------------ *)
\* Where the portal fails in an operation, if anywhere: a request answered with
\* a status other than 200, or a page without the form or its hidden input.
PortalFailures ==
    { "none", "login_get", "login_token", "login_post", "configure_get",
      "configure_token", "set_post" }

\* The portal requests that post a form.
PortalPosts == {"login_post", "set_post"}

\* The portal requests that name self.serial_number, in the URL or in the form.
PortalPerSerial == {"configure_get", "set_post"}

\* _portal_get / _portal_post on session2, answered by _portal_response.
\* The request is logged with the anti-forgery token its form carries.
portal_request(c, env, step) ==
    IF c.err # "none" THEN c
    ELSE [c EXCEPT
            !.trace = Append(@, [kind |-> "portal", step |-> step,
                                 token |-> IF step \in PortalPosts THEN c.GAFToken
                                           ELSE None,
                                 target |-> IF step \in PortalPerSerial
                                            THEN c.serial_number ELSE None]),
            !.err = IF env.portalFail = step THEN "RedbackTechClientError" ELSE "none"]

\* _get_portal_token(response, type): the hidden input of the page's form.
\* Each page the portal serves carries a token of its own: the page and the
\* operation that fetched it identify it.
PageToken(c, page) == [page |-> page, fetched |-> c.now, op |-> c.op]

get_portal_token_login_only(c, env, step, page) ==
    IF c.err # "none" THEN c
    ELSE IF env.portalFail = step THEN Raise(c, "AttributeError")
    ELSE IF page = "login" THEN [c EXCEPT !.GAFToken = Some(PageToken(c, page))]
    ELSE c

get_portal_token(c, env, step, page) ==
    IF c.err # "none" THEN c
    ELSE IF env.portalFail = step THEN Raise(c, "AttributeError")
    ELSE [c EXCEPT !.GAFToken = Some(PageToken(c, page))]

\* self._session2 = ClientSession(): the session referenced before, when it is
\* still open, stays open with nothing left to close it.
open_session2(c) ==
    [c EXCEPT !.session2 = Some("open"),
              !.leaked = IF c.session2 = Some("open") THEN @ + 1 ELSE @,
              !.trace = Append(@, [kind |-> "session", GAFToken |-> c.GAFToken])]

\* await self._session2.close()
close_session2(c) ==
    IF c.err # "none" THEN c
    ELSE IF IsNone(c.session2) THEN Raise(c, "AttributeError")
    ELSE [c EXCEPT !.session2 = Some("closed")]

\* _portal_login
portal_login(c, env) ==
    portal_request(
      get_portal_token(portal_request(open_session2(c), env, "login_get"),
                       env, "login_token", "login"),
      env, "login_post")

\* test_portal_connection
test_portal_connection(c, env) ==
    close_session2(portal_login([c EXCEPT !.GAFToken = None], env))

(* ------------------------------------------------------------------ *)
(* Mutation operations                                                  *)
(* ------------------------------------------------------------------ *)
\* for device in self._redback_device_info: if device['identifiers'] ==
\* device_id: ...; break -- the first record with that identifier, if any.
RECURSIVE find_device(_, _, _)
find_device(device_info, i, device_id) ==
    IF i > Len(device_info) THEN None
    ELSE IF device_info[i].identifiers = device_id THEN Some(device_info[i])
    ELSE find_device(device_info, i + 1, device_id)

lookup_serial(c, device_id) ==
    IF IsNone(find_device(c.redback_device_info, 1, device_id)) THEN c
    ELSE [c EXCEPT !.serial_number =
            Some(Val(find_device(c.redback_device_info, 1, device_id)).serial_number)]

lookup_serial_and_version(c, device_id) ==
    IF IsNone(find_device(c.redback_device_info, 1, device_id)) THEN c
    ELSE [c EXCEPT
            !.serial_number =
              Some(Val(find_device(c.redback_device_info, 1, device_id)).serial_number),
            !.ross_version =
              Some(Val(find_device(c.redback_device_info, 1, device_id)).sw_version)]

\* self._redback_schedule_selected.update([(self.device_id, {'schedule_id': None})])
select_none(c, device_id) ==
    [c EXCEPT !.redback_schedule_selected = DictPut(@, device_id, [schedule_id |-> None])]

\* The vendor after a DELETE of schedule_id of self.serial_number that it
\* answered well.
vendor_delete(c, schedule_id) ==
    IF c.err # "none" THEN c
    ELSE [c EXCEPT !.vendor_schedules =
            {x \in @ : ~(x.SerialNumber = Val(c.serial_number)
                         /\ x.ScheduleId = schedule_id)}]

\* The DELETE of delete_inverter_schedule: the URL reads self.serial_number.
send_delete(c, env, auth) ==
    IF c.err # "none" THEN c
    ELSE IF IsNone(c.serial_number) THEN Raise(c, "AttributeError")
    ELSE api_delete(c, env, "API_SCHEDULE_DELETE", c.serial_number, auth)

send_delete_checked(c, env) == send_delete(c, env, c.token)

\* delete_inverter_schedule(device_id, schedule_id)
delete_inverter_schedule(c, env, device_id, schedule_id) ==
    vendor_delete(
      send_delete_checked(
        check_token(lookup_serial(select_none(c, device_id), device_id), env), env),
      schedule_id)

\* The loop of delete_all_inverter_schedules: one DELETE per stored schedule of
\* self.serial_number, with the header built before the loop.
RECURSIVE delete_all_loop(_, _, _, _)
delete_all_loop(c, env, i, auth) ==
    IF c.err # "none" \/ i > Len(c.redback_schedules) THEN c
    ELSE IF IsNone(c.serial_number) THEN Raise(c, "AttributeError")
    ELSE IF c.redback_schedules[i].serial_number # Val(c.serial_number)
    THEN delete_all_loop(c, env, i + 1, auth)
    ELSE delete_all_loop(
           vendor_delete(send_delete(c, env, auth), c.redback_schedules[i].schedule_id),
           env, i + 1, auth)

delete_all_with_header(c, env) == delete_all_loop(c, env, 1, c.token)

\* delete_all_inverter_schedules(device_id)
delete_all_inverter_schedules(c, env, device_id) ==
    delete_all_with_header(lookup_serial(select_none(c, device_id), device_id), env)

\* ('00' + str(n))[-2:] read back as a number, for n >= 0.
LastTwoDigits(n) == n % 100

\* The Duration string set_inverter_schedule builds from the staged minutes.
DurationString(duration) ==
    WireDuration(TRUE,
                 IF duration \div 1440 < 0 THEN 0 ELSE duration \div 1440,
                 LastTwoDigits(duration \div 60),
                 LastTwoDigits(duration - (duration \div 60) * 60))

\* The id the vendor gives a new schedule: the least one it does not hold.
NewScheduleId(c) ==
    CHOOSE k \in 1..(Cardinality(c.vendor_schedules) + 1) :
        /\ \A x \in c.vendor_schedules : x.ScheduleId # k
        /\ \A j \in 1..(k - 1) : \E x \in c.vendor_schedules : x.ScheduleId = j

\* The vendor after a schedule create that it answered well.
vendor_create(c, post_data) ==
    IF c.err # "none" THEN c
    ELSE [c EXCEPT !.vendor_schedules = @ \cup
            { [ ScheduleId |-> NewScheduleId(c),
                SerialNumber |-> post_data.SerialNumber,
                StartTimeUtc |-> post_data.StartTimeUtc,
                Duration |-> post_data.Duration,
                DesiredMode |-> post_data.DesiredMode ] }]

\* post_data of set_inverter_schedule
schedule_post_data(c, device_id) ==
    [ SerialNumber |-> Val(c.serial_number),
      StartTimeUtc |-> c.inverter_control_settings[device_id].start_time,
      Duration |->
          DurationString(c.inverter_control_settings[device_id].power_setting_duration),
      DesiredMode |->
          [ InverterMode |-> c.inverter_control_settings[device_id].power_setting_mode,
            ArgumentInWatts |->
                c.inverter_control_settings[device_id].power_setting_watts ] ]

\* set_inverter_schedule after the device lookup: the staged values are read,
\* post_data and the header built, the token checked, the request sent.
create_schedule(c, env, device_id) ==
    IF device_id \notin DOMAIN c.inverter_control_settings THEN Raise(c, "KeyError")
    ELSE IF IsNone(c.serial_number) THEN Raise(c, "AttributeError")
    ELSE vendor_create(
           api_post_json(check_token(c, env), env, "API_SCHEDULE_CREATE",
                         c.serial_number, c.token),
           schedule_post_data(c, device_id))

\* set_inverter_schedule(device_id)
set_inverter_schedule(c, env, device_id) ==
    create_schedule(lookup_serial(c, device_id), env, device_id)

\* The GET of the configure page: the URL reads self.serial_number.
configure_get(c, env) ==
    IF c.err # "none" THEN c
    ELSE IF IsNone(c.serial_number) THEN Raise(c, "AttributeError")
    ELSE portal_request(c, env, "configure_get")

\* The POST of the mode: the form reads self.ross_version.
set_post(c, env) ==
    IF c.err # "none" THEN c
    ELSE IF IsNone(c.ross_version) THEN Raise(c, "AttributeError")
    ELSE portal_request(c, env, "set_post")

\* set_inverter_mode_portal after the device lookup.
set_mode(c, env, device_id, Mode_override) ==
    IF ~Mode_override /\ device_id \notin DOMAIN c.inverter_control_settings
    THEN Raise(c, "KeyError")
    ELSE close_session2(
           set_post(
             get_portal_token(configure_get(portal_login(c, env), env),
                              env, "configure_token", "configure"),
             env))

\* set_inverter_mode_portal(device_id, Mode_override)
set_inverter_mode_portal(c, env, device_id, Mode_override) ==
    set_mode(lookup_serial_and_version(c, device_id), env, device_id, Mode_override)

\* update_inverter_control_values(device_id, data_key, data_value)
update_inverter_control_values(c, device_id, data_key, data_value) ==
    IF device_id \notin DOMAIN c.inverter_control_settings
    THEN Raise(c, "AttributeError")
    ELSE [c EXCEPT !.inverter_control_settings[device_id][data_key] = data_value]

\* reset_inverter_start_time_to_now(device_id)
reset_inverter_start_time_to_now(c, device_id) ==
    IF device_id \notin DOMAIN c.inverter_control_settings
    THEN Raise(c, "AttributeError")
    ELSE [c EXCEPT !.inverter_control_settings[device_id].start_time = c.now]

\* update_selected_schedule_id(device_id, schedule_id)
update_selected_schedule_id(c, device_id, schedule_id) ==
    IF device_id \notin DOMAIN c.redback_schedule_selected
    THEN Raise(c, "AttributeError")
    ELSE [c EXCEPT !.redback_schedule_selected[device_id].schedule_id = schedule_id]

\* test_api_connection
test_api_connection(c, env) == check_token(c, env)

\* close_sessions
close_sessions(c) == close_session2([c EXCEPT !.session1 = "closed"])

(* ------------------------------------------------------------------ *)
(* The state machine                                                    *)
(* ------------------------------------------------------------------ *)
\* The most HTTP requests one operation makes: a login, the node list, and
\* four fetches per device.
MaxCalls == 2 + 4 * MaxDevices

\* The vendor's answers to one operation.
\* The answers that fail a request of an operation other than the login test:
\* a server error, and an embedded auth error code.
FailingResponses ==
    { [status |-> 500, json |-> FALSE, error |-> None],
      [status |-> HttpOk, json |-> TRUE, error |-> Some("invalid_client")] }

\* The vendor's answers to an operation of at most maxCalls requests: all good,
\* or, with faults, the request numbered failAt answered by one of bad.
ApiEnvs(faults, maxCalls, bad) ==
    { [failAt |-> 0, resp |-> GoodResponse, expires_in |-> e, portalFail |-> "none"] :
        e \in ExpiresIn }
    \cup
    { [failAt |-> k, resp |-> r, expires_in |-> TokenMargin, portalFail |-> "none"] :
        k \in 1..(IF faults THEN maxCalls ELSE 0), r \in bad }

\* The schedules the vendor may hold for an account before the client starts:
\* none, or one for the account's first inverter.
InitialSchedules(account) ==
    {{}} \cup
    { { [ ScheduleId |-> 1, SerialNumber |-> account[i], StartTimeUtc |-> 0,
          Duration |-> WireDuration(TRUE, 0, 1, 30),
          DesiredMode |-> [InverterMode |-> "ChargeBattery",
                           ArgumentInWatts |-> 5000] ] } : i \in {1} \cap DOMAIN account }

PortalEnvs(faults, failures) ==
    { [failAt |-> 0, resp |-> GoodResponse, expires_in |-> TokenMargin, portalFail |-> f] :
        f \in IF faults THEN failures ELSE {"none"} }

\* The accounts: up to MaxDevices distinct inverters, listed by the vendor in
\* the order of SerialList.
RECURSIVE SubSeqsFrom(_)
SubSeqsFrom(i) ==
    IF i > Len(SerialList) THEN {<<>>}
    ELSE LET rest == SubSeqsFrom(i + 1)
         IN  rest \cup {<<SerialList[i]>> \o q : q \in rest}

Accounts == {q \in SubSeqsFrom(1) : Len(q) <= MaxDevices}

\* The device ids a caller may name: those of the account's devices.
DeviceIds ==
    { DeviceId(nodes[i], InvSuffix) : i \in DOMAIN nodes }
    \cup { DeviceId(nodes[i], BatSuffix) :
             i \in {j \in DOMAIN nodes : StaticPayload(nodes[j]).BatteryCount > 0} }

\* The schedule ids a caller may name.
ScheduleIds == 1..MaxSchedules

\* The tasks of the event loop that call the client.
TaskIds == 1..MaxTasks

\* A task that is in no call: op is the operation in progress, pc where it is
\* suspended, pend the request it awaits, next the request that follows the
\* login it awaits, serials and i the device loop of a refresh, targets the
\* serials its fetches of the current device were sent for, trace the calls
\* made so far, rebuilt whether it emptied the lists, and ran the calls the
\* task has finished.
IdleTask ==
    [ op |-> "idle", pc |-> "idle", args |-> <<>>, pend |-> None, next |-> None,
      serials |-> <<>>, i |-> 0, targets |-> <<>>, trace |-> <<>>,
      rebuilt |-> FALSE, ran |-> 0 ]

\* The client as __init__ leaves it, before any operation.
Constructed ==
    /\ now = 0
    /\ token = None
    /\ token_expiration = None
    /\ serial_numbers = None
    /\ u_serial_numbers = None
    /\ serial_number = None
    /\ ross_version = None
    /\ session1 = "open"
    /\ session2 = None
    /\ leaked = 0
    /\ GAFToken = None
    /\ device_info_refresh_time = None
    /\ redback_entities = <<>>
    /\ redback_device_info = <<>>
    /\ redback_numbers = <<>>
    /\ redback_selects = <<>>
    /\ redback_schedule_datetime = <<>>
    /\ redback_schedules = <<>>
    /\ redback_site_load = EmptyDict
    /\ inverter_control_settings = EmptyDict
    /\ redback_temp_voltage = EmptyDict
    /\ lastOp = [name |-> "init", args |-> <<>>, result |-> "ok", trace |-> <<>>,
                 rebuilt |-> FALSE, window |-> None, returned |-> None]
    /\ ops = 0
    /\ tasks = [t \in TaskIds |-> IdleTask]

Init ==
    /\ Constructed
    /\ nodes \in Accounts
    /\ vendor_schedules \in InitialSchedules(nodes)
    /\ redback_schedule_selected = EmptyDict
    /\ faulty \in BOOLEAN

\* The operations of a run: MaxOps when the vendor may fail a request,
\* MaxOpsLong when it answers every request well.
Budget == IF faulty THEN MaxOps ELSE MaxOpsLong

\* The client's fields and the vendor's schedules as the record r holds them.
Store(r) ==
    /\ vendor_schedules' = r.vendor_schedules
    /\ token' = r.token
    /\ token_expiration' = r.token_expiration
    /\ serial_numbers' = r.serial_numbers
    /\ u_serial_numbers' = r.u_serial_numbers
    /\ serial_number' = r.serial_number
    /\ ross_version' = r.ross_version
    /\ session1' = r.session1
    /\ session2' = r.session2
    /\ leaked' = r.leaked
    /\ GAFToken' = r.GAFToken
    /\ device_info_refresh_time' = r.device_info_refresh_time
    /\ redback_entities' = r.redback_entities
    /\ redback_device_info' = r.redback_device_info
    /\ redback_numbers' = r.redback_numbers
    /\ redback_selects' = r.redback_selects
    /\ redback_schedule_datetime' = r.redback_schedule_datetime
    /\ redback_schedules' = r.redback_schedules
    /\ redback_site_load' = r.redback_site_load
    /\ inverter_control_settings' = r.inverter_control_settings
    /\ redback_schedule_selected' = r.redback_schedule_selected
    /\ redback_temp_voltage' = r.redback_temp_voltage

\* The state after an operation that ended in the record r.
Commit(r, name, args, returned) ==
    /\ ops < Budget
    /\ ops' = ops + 1
    /\ Store(r)
    /\ lastOp' = [ name |-> name, args |-> args,
                   result |-> IF r.err = "none" THEN "ok" ELSE r.err,
                   trace |-> r.trace, rebuilt |-> r.rebuilt,
                   window |-> IF IsNone(device_info_refresh_time) THEN None
                              ELSE Some(Val(device_info_refresh_time) - now),
                   returned |-> IF r.err = "none" THEN returned ELSE None ]
    /\ UNCHANGED <<now, nodes, faulty, tasks>>

\* Time passes.
Tick ==
    /\ now < MaxTicks * TimeStep
    /\ now' = now + TimeStep
    /\ UNCHANGED << nodes, vendor_schedules, token, token_expiration, serial_numbers,
                    u_serial_numbers, serial_number, ross_version, session1, session2,
                    leaked, GAFToken, device_info_refresh_time, redback_entities,
                    redback_device_info, redback_numbers, redback_selects,
                    redback_schedule_datetime, redback_schedules, redback_site_load,
                    inverter_control_settings, redback_schedule_selected,
                    redback_temp_voltage, lastOp, ops, faulty, tasks >>

GetRedbackData ==
    \E env \in ApiEnvs(faulty, MaxCalls, FailingResponses) :
        LET r == get_redback_data(Self, env)
        IN  Commit(r, "get_redback_data", <<>>, Some(returned_maps(r)))

TestApiConnection ==
    \E env \in ApiEnvs(faulty, 1, BadResponses) :
        LET r == test_api_connection(Self, env)
        IN  Commit(r, "test_api_connection", <<>>, Some(~IsNone(r.token)))

TestPortalConnection ==
    \E env \in PortalEnvs(faulty, {"none", "login_get", "login_token", "login_post"}) :
        LET r == test_portal_connection(Self, env)
        IN  /\ r.leaked <= MaxLeaked
            /\ Commit(r, "test_portal_connection", <<>>, Some(~IsNone(r.GAFToken)))

DeleteInverterSchedule ==
    \E env \in ApiEnvs(faulty, 2, FailingResponses), device_id \in DeviceIds,
       schedule_id \in ScheduleIds :
        LET r == delete_inverter_schedule(Self, env, device_id, schedule_id)
        IN  Commit(r, "delete_inverter_schedule", <<device_id, schedule_id>>, None)

DeleteAllInverterSchedules ==
    \E env \in ApiEnvs(faulty, MaxSchedules, FailingResponses), device_id \in DeviceIds :
        LET r == delete_all_inverter_schedules(Self, env, device_id)
        IN  /\ env.expires_in = TokenMargin
            /\ Commit(r, "delete_all_inverter_schedules", <<device_id>>, None)

SetInverterSchedule ==
    \E env \in ApiEnvs(faulty, 2, FailingResponses), device_id \in DeviceIds :
        LET r == set_inverter_schedule(Self, env, device_id)
        IN  /\ Cardinality(r.vendor_schedules) <= MaxSchedules
            /\ Commit(r, "set_inverter_schedule", <<device_id>>, None)

SetInverterModePortal ==
    \E env \in PortalEnvs(faulty, PortalFailures), device_id \in DeviceIds,
       Mode_override \in BOOLEAN :
        LET r == set_inverter_mode_portal(Self, env, device_id, Mode_override)
        IN  /\ r.leaked <= MaxLeaked
            /\ Commit(r, "set_inverter_mode_portal", <<device_id, Mode_override>>, None)

\* The durations a caller stages: an hour and a half, and a day and an hour.
StagedDurations == {90, 1500}

UpdateInverterControlValues ==
    \E device_id \in DeviceIds :
        \/ LET r == update_inverter_control_values(Self, device_id,
                                                   "power_setting_mode", "ChargeBattery")
           IN  Commit(r, "update_inverter_control_values", <<device_id>>, None)
        \/ \E minutes \in StagedDurations :
              LET r == update_inverter_control_values(Self, device_id,
                                                      "power_setting_duration", minutes)
              IN  Commit(r, "update_inverter_control_values", <<device_id>>, None)

ResetInverterStartTimeToNow ==
    \E device_id \in DeviceIds :
        LET r == reset_inverter_start_time_to_now(Self, device_id)
        IN  Commit(r, "reset_inverter_start_time_to_now", <<device_id>>, None)

UpdateSelectedScheduleId ==
    \E device_id \in DeviceIds, schedule_id \in ScheduleIds :
        LET r == update_selected_schedule_id(Self, device_id, Some(schedule_id))
        IN  Commit(r, "update_selected_schedule_id", <<device_id, schedule_id>>, None)

CloseSessions ==
    \E r \in {close_sessions(Self)} :
        Commit(r, "close_sessions", <<>>, Some(TRUE))

Next ==
    \/ Tick
    \/ GetRedbackData
    \/ TestApiConnection
    \/ TestPortalConnection
    \/ DeleteInverterSchedule
    \/ DeleteAllInverterSchedules
    \/ SetInverterSchedule
    \/ SetInverterModePortal
    \/ UpdateInverterControlValues
    \/ ResetInverterStartTimeToNow
    \/ UpdateSelectedScheduleId
    \/ CloseSessions

Spec == Init /\ [][Next]_vars

(* ------------------------------------------------------------------ *)
(* The normalizer on its own                                            *)
(* ------------------------------------------------------------------ *)
\* The Duration strings of the vendor's schedules: "0.02:15:00", "01:05:00" and
\* "1.00:30:00".
NormDurations ==
    { WireDuration(TRUE, 0, 2, 15), WireDuration(FALSE, 0, 1, 5),
      WireDuration(TRUE, 1, 0, 30) }

\* The sets of schedules the vendor may hold for an inverter: schedules 1..n for
\* n up to MaxNormSchedules, each with one of the Duration strings.
NormScheduleSets(serial) ==
    UNION { { { [ ScheduleId |-> k, SerialNumber |-> serial, StartTimeUtc |-> 600 * k,
                  Duration |-> d[k],
                  DesiredMode |-> [InverterMode |-> "ChargeBattery",
                                   ArgumentInWatts |-> 1000 * k] ] : k \in 1..n } :
                d \in [1..n -> NormDurations] } : n \in 0..MaxNormSchedules }

\* A client with one inverter whose selection is none or a schedule id, in front
\* of a vendor that holds some schedules for it.
InitNorm ==
    /\ Constructed
    /\ nodes \in {<<serial>> : serial \in Serials}
    /\ vendor_schedules \in NormScheduleSets(nodes[1])
    /\ redback_schedule_selected \in
          { [d \in {DeviceId(nodes[1], InvSuffix)} |-> [schedule_id |-> x]] :
              x \in {None} \cup {Some(k) : k \in 1..MaxNormSchedules} }
    /\ faulty = FALSE

\* _create_device_info's lists emptied (lines 451-456) and a new schedules
\* response normalized (line 467).  The caller keeps the response it passed, as
\* the call left it.
NormConvertSchedules ==
    \E data \in {SchedulesPayload(Self, nodes[1])} :
        Commit(convert_responses_to_schedule_entities(clear_lists(Self), data),
               "convert_responses_to_schedule_entities",
               <<schedules_after_convert(data)>>, None)

\* The same with the response object of the previous call passed again.
NormConvertSchedulesAgain ==
    /\ lastOp.name = "convert_responses_to_schedule_entities"
    /\ \E data \in {lastOp.args[1]} :
          Commit(convert_responses_to_schedule_entities(clear_lists(Self), data),
                 "convert_responses_to_schedule_entities_again",
                 <<schedules_after_convert(data)>>, None)

\* _add_additional_entities called with the inverter's site load as a number,
\* onto an emptied entity list, after the schedules were normalized.
NormAddAdditionalEntities ==
    /\ lastOp.name = "convert_responses_to_schedule_entities"
    /\ lastOp.result = "ok"
    /\ \E site_load \in {0, 1234} :
          Commit(add_additional_entities([Self EXCEPT !.redback_entities = <<>>],
                                         Float(site_load), StaticPayload(nodes[1])),
                 "add_additional_entities", <<site_load>>, None)

NextNorm ==
    \/ NormConvertSchedules
    \/ NormConvertSchedulesAgain
    \/ NormAddAdditionalEntities

SpecNorm == InitNorm /\ [][NextNorm]_vars

(* ------------------------------------------------------------------ *)
(* Overlapping calls                                                    *)
(* ------------------------------------------------------------------ *)
\* Two tasks of one event loop call the same client.  A call runs without
\* interruption from one request to the next: it is suspended only while a
\* request of session1 is awaited, and what it reads of the client after the
\* answer is what the client holds by then.

\* A request in flight: its URL and its header are built when it is sent.
Request(method, endpoint, target, auth) ==
    [method |-> method, endpoint |-> endpoint, target |-> target, auth |-> auth]

\* The endpoints whose URL ends with self.serial_number.
PerSerialEndpoints ==
    { "API_STATIC_BY_SERIAL", "API_ENERGY_DYNAMIC_BY_SERIAL",
      "API_SCHEDULE_BY_SERIALNUMBER", "API_CONFIG_BY_SERIAL", "API_SCHEDULE_DELETE" }

\* The per-serial fetchers, by their endpoint.
FetcherOf ==
    [ API_STATIC_BY_SERIAL |-> "_get_static_by_serial",
      API_ENERGY_DYNAMIC_BY_SERIAL |-> "_get_dynamic_by_serial",
      API_SCHEDULE_BY_SERIALNUMBER |-> "_get_schedules_by_serial" ]

\* A vendor that answers well.
GoodEnv ==
    [failAt |-> 0, resp |-> GoodResponse, expires_in |-> TokenMargin, portalFail |-> "none"]

\* The client and the task after a stretch of code that ran without
\* interruption.
Seg(c, task) == [c |-> c, task |-> task]

\* The call returns.
Done(task) == [task EXCEPT !.pc = "done"]

\* The header and the URL of a request are built from self.token and
\* self.serial_number as they are now, and the request is sent.
issue(c, task, method, endpoint) ==
    IF c.err # "none" THEN Seg(c, task)
    ELSE IF endpoint \in PerSerialEndpoints /\ IsNone(c.serial_number)
    THEN Seg(Raise(c, "AttributeError"), task)
    ELSE Seg(c, [task EXCEPT
                   !.pc = "await",
                   !.pend = Some(Request(method, endpoint,
                                         IF endpoint \in PerSerialEndpoints
                                         THEN c.serial_number ELSE None,
                                         c.token))])

\* What follows a token check: the request next, or the return of the call when
\* there is none.
proceed(c, task, next) ==
    IF IsNone(next) THEN Seg(c, Done(task))
    ELSE issue(c, task, Val(next).method, Val(next).endpoint)

\* await self._check_token() and what follows it: the call is suspended in the
\* login request when the check logs in.
begin_checked(c, task, next) ==
    IF c.err # "none" THEN Seg(c, task)
    ELSE IF check_token_needs_login(c)
    THEN Seg(log_check(c),
             [task EXCEPT !.pc = "login",
                          !.pend = Some(Request("POST", "API_AUTH", None, None)),
                          !.next = next])
    ELSE proceed(log_check(c), task, next)

\* The login answered: _api_login's assignments, then what follows the check.
after_login(c, task, env) ==
    proceed(store_token(api_post(c, env, "API_AUTH", None, None), env), task, task.next)

\* A per-serial fetcher up to its first request: the serial is recorded, then
\* the token is checked.
begin_fetch(c, task, endpoint, serial) ==
    IF c.err # "none" THEN Seg(c, task)
    ELSE begin_checked([c EXCEPT !.serial_number = Some(serial)], task,
                       Some([method |-> "GET", endpoint |-> endpoint]))

\* The entry of delete_inverter_schedule's lookup in the trace: the serial of
\* the record found, if any.
log_lookup(c, device_id) ==
    [c EXCEPT !.trace = Append(@,
        [ kind |-> "lookup", device_id |-> device_id,
          found |-> IF IsNone(find_device(c.redback_device_info, 1, device_id))
                    THEN None
                    ELSE Some(Val(find_device(c.redback_device_info, 1,
                                              device_id)).serial_number) ])]

\* delete_inverter_schedule up to its first request.
begin_delete(c, task, device_id) ==
    begin_checked(log_lookup(lookup_serial(select_none(c, device_id), device_id),
                             device_id),
                  task, Some([method |-> "DELETE", endpoint |-> "API_SCHEDULE_DELETE"]))

\* The vendor after a DELETE it answered well: the schedule of the serial the
\* request named is gone.
vendor_answer_delete(c, target, schedule_id) ==
    IF c.err # "none" THEN c
    ELSE [c EXCEPT !.vendor_schedules =
            {x \in @ : ~(x.SerialNumber = Val(target) /\ x.ScheduleId = schedule_id)}]

\* The loop of _create_device_info at its next serial number, or its end.
next_device(c, task) ==
    IF c.err # "none" THEN Seg(c, task)
    ELSE IF task.i > Len(task.serials)
    THEN Seg(set_device_info_refresh_time(c), Done(task))
    ELSE begin_fetch(c, [task EXCEPT !.targets = <<>>], "API_STATIC_BY_SERIAL",
                     task.serials[task.i])

\* _create_device_info from its six assignments of empty lists on.
begin_loop(c, task) ==
    IF c.err # "none" THEN Seg(c, task)
    ELSE IF IsNone(c.u_serial_numbers) THEN Seg(Raise(c, "AttributeError"), task)
    ELSE next_device(clear_lists(c),
                     [task EXCEPT !.serials = Val(c.u_serial_numbers), !.i = 1,
                                  !.rebuilt = TRUE])

\* get_redback_data up to its first request.
begin_refresh(c, task) ==
    IF ~Truthy(check_device_info_refresh(c))
    THEN begin_checked([c EXCEPT !.serial_numbers = Some(<<>>)], task,
                       Some([method |-> "GET", endpoint |-> "API_NODES"]))
    ELSE begin_loop(c, task)

\* The end of the loop's body, and the loop's next round.
end_of_device(c, task) ==
    IF c.err # "none" THEN Seg(c, task)
    ELSE next_device(c, [task EXCEPT !.i = @ + 1])

\* The loop's body from _create_datetime_entities on; response1 is the static
\* answer for the serial the request named.
device_tail(c, task, response1) ==
    end_of_device(
      create_device_info_inverter(
        call_add_additional_entities(create_datetime_entities(c, response1), response1),
        response1),
      task)

\* The loop's body after the normalizers of the inverter: the request of
\* _get_config_by_serial when the inverter has a battery.
config_or_tail(c, task, response1) ==
    IF c.err # "none" THEN Seg(c, task)
    ELSE IF response1.BatteryCount > 0
    THEN issue([c EXCEPT !.serial_number = Some(response1.Id)], task,
               "GET", "API_CONFIG_BY_SERIAL")
    ELSE device_tail(c, task, response1)

\* The loop's body after the answer of _get_schedules_by_serial: the three
\* answers are those for the serials the requests named.
after_schedules(c, task) ==
    config_or_tail(
      create_select_entities(
        create_number_entities(
          convert_responses_to_schedule_entities(
            convert_responses_to_inverter_entities(
              zero_site_load(c, task.serials[task.i]),
              StaticPayload(Val(task.targets[1])),
              DynamicPayloadAt(c.now, Val(task.targets[2]))),
            SchedulesPayload(c, Val(task.targets[3]))),
          StaticPayload(Val(task.targets[1]))),
        StaticPayload(Val(task.targets[1]))),
      task, StaticPayload(Val(task.targets[1])))

\* The loop's body after the answer of _get_config_by_serial.
after_config(c, task, target) ==
    device_tail(
      create_device_info_battery(
        convert_responses_to_battery_entities(
          c, StaticPayload(Val(task.targets[1])),
          DynamicPayloadAt(c.now, Val(task.targets[2])), ConfigPayload(Val(target))),
        StaticPayload(Val(task.targets[1]))),
      task, StaticPayload(Val(task.targets[1])))

\* get_redback_data after the answer to the request p.
refresh_continue(c, task, p) ==
    CASE p.endpoint = "API_NODES" ->
           begin_loop(store_u_serial_numbers(store_serial_numbers(c)), task)
      [] p.endpoint = "API_STATIC_BY_SERIAL" ->
           begin_fetch(c, [task EXCEPT !.targets = Append(@, p.target)],
                       "API_ENERGY_DYNAMIC_BY_SERIAL", task.serials[task.i])
      [] p.endpoint = "API_ENERGY_DYNAMIC_BY_SERIAL" ->
           begin_fetch(c, [task EXCEPT !.targets = Append(@, p.target)],
                       "API_SCHEDULE_BY_SERIALNUMBER", task.serials[task.i])
      [] p.endpoint = "API_SCHEDULE_BY_SERIALNUMBER" ->
           after_schedules(c, [task EXCEPT !.targets = Append(@, p.target)])
      [] OTHER -> after_config(c, task, p.target)

\* The call after the answer to the request p it awaited.
continue(c, task, p) ==
    IF c.err # "none" THEN Seg(c, task)
    ELSE CASE task.op = "get_redback_data" -> refresh_continue(c, task, p)
           [] task.op = "delete_inverter_schedule" ->
                Seg(vendor_answer_delete(c, p.target, task.args[2]), Done(task))
           [] OTHER -> Seg(c, Done(task))

\* The request the task awaited is answered.
after_response(c, task, env) ==
    continue(api_request(c, env, Val(task.pend).method, Val(task.pend).endpoint,
                         Val(task.pend).target, Val(task.pend).auth),
             task, Val(task.pend))

\* A task may start a call.
CanStart(t) == tasks[t].pc = "idle" /\ tasks[t].ran < MaxTaskOps

\* The task t at the start of the call op(args).
Called(t, op, args) == [tasks[t] EXCEPT !.op = op, !.args = args]

\* Whether the stretch seg ended the call.
Finished(seg) == seg.c.err # "none" \/ seg.task.pc = "done"

\* The state after the task t ran the stretch seg.
Step(t, seg) ==
    /\ Store(seg.c)
    /\ tasks' = [tasks EXCEPT ![t] =
                   IF Finished(seg) THEN [IdleTask EXCEPT !.ran = tasks[t].ran + 1]
                   ELSE [seg.task EXCEPT !.trace = @ \o seg.c.trace,
                                         !.rebuilt = @ \/ seg.c.rebuilt]]
    /\ ops' = IF Finished(seg) THEN ops + 1 ELSE ops
    /\ lastOp' = IF Finished(seg)
                 THEN [ name |-> seg.task.op, args |-> seg.task.args,
                        result |-> IF seg.c.err = "none" THEN "ok" ELSE seg.c.err,
                        trace |-> seg.task.trace \o seg.c.trace,
                        rebuilt |-> seg.task.rebuilt \/ seg.c.rebuilt,
                        window |-> None,
                        returned |-> IF seg.c.err = "none"
                                        /\ seg.task.op = "get_redback_data"
                                     THEN Some(returned_maps(seg.c)) ELSE None ]
                 ELSE lastOp
    /\ UNCHANGED <<now, nodes, faulty>>

\* A new client, a vendor that answers every request but the login well.
InitAsync ==
    /\ Constructed
    /\ nodes \in Accounts
    /\ vendor_schedules \in InitialSchedules(nodes)
    /\ redback_schedule_selected = EmptyDict
    /\ faulty = FALSE

\* The answers to a login: a token of one of the lifetimes, or a failure.
LoginEnvs == ApiEnvs(TRUE, 1, BadResponses)

AsyncGetRedbackData ==
    \E t \in TaskIds :
        /\ CanStart(t)
        /\ Step(t, begin_refresh(Self, Called(t, "get_redback_data", <<>>)))

AsyncFetchBySerial ==
    \E t \in TaskIds, endpoint \in DOMAIN FetcherOf, i \in DOMAIN nodes :
        /\ CanStart(t)
        /\ Step(t, begin_fetch(Self, Called(t, FetcherOf[endpoint], <<nodes[i]>>),
                               endpoint, nodes[i]))

AsyncDeleteInverterSchedule ==
    \E t \in TaskIds, device_id \in DeviceIds, schedule_id \in ScheduleIds :
        /\ CanStart(t)
        /\ Step(t, begin_delete(Self, Called(t, "delete_inverter_schedule",
                                             <<device_id, schedule_id>>),
                                device_id))

AsyncTestApiConnection ==
    \E t \in TaskIds :
        /\ CanStart(t)
        /\ Step(t, begin_checked(Self, Called(t, "test_api_connection", <<>>), None))

\* The login a task awaits is answered.
AsyncLoginAnswered ==
    \E t \in TaskIds, env \in LoginEnvs :
        /\ tasks[t].pc = "login"
        /\ Step(t, after_login(Self, tasks[t], env))

\* The request a task awaits is answered.
AsyncAnswered ==
    \E t \in TaskIds :
        /\ tasks[t].pc = "await"
        /\ Step(t, after_response(Self, tasks[t], GoodEnv))

NextAsync ==
    \/ AsyncGetRedbackData
    \/ AsyncFetchBySerial
    \/ AsyncDeleteInverterSchedule
    \/ AsyncTestApiConnection
    \/ AsyncLoginAnswered
    \/ AsyncAnswered

SpecAsync == InitAsync /\ [][NextAsync]_vars

(* ------------------------------------------------------------------ *)
(* Properties                                                           *)
(* ------------------------------------------------------------------ *)
\* The events of the last operation's trace.
Trace == lastOp.trace
Events == DOMAIN Trace
IsCheck(i) == Trace[i].kind = "check"
IsRequest(i) == Trace[i].kind \in {"request", "refused"}
IsLogin(i) == IsRequest(i) /\ Trace[i].endpoint = "API_AUTH"

\* The token and expiry held after the token check at position i: those the next
\* check sees, or those the operation ends with.
HeldAfter(i) ==
    IF \E j \in Events : j > i /\ IsCheck(j)
    THEN LET j == CHOOSE k \in Events :
                    /\ k > i /\ IsCheck(k)
                    /\ \A m \in Events : (m > i /\ IsCheck(m)) => k <= m
         IN  <<Trace[j].token, Trace[j].token_expiration>>
    ELSE <<token, token_expiration>>

\* The check at position i is followed at once by a login request.
LoginFollows(i) == (i + 1) \in Events /\ IsLogin(i + 1)

\* The seconds left on the token the check at position i saw.
Remaining(i) == Val(Trace[i].token_expiration) - Trace[i].now

\* C1: a token check logs in exactly when no token is held or fewer than 3600
\* seconds are left on it; with a token held and 3600 seconds or more left it
\* does not log in and leaves token and token_expiration as they were.
C1_CheckTokenLoginIff ==
    \A i \in Events :
        IsCheck(i) =>
            /\ LoginFollows(i) <=>
                  (IsNone(Trace[i].token) \/ Remaining(i) < 3600)
            /\ (~IsNone(Trace[i].token) /\ Remaining(i) >= 3600) =>
                  HeldAfter(i) = <<Trace[i].token, Trace[i].token_expiration>>

\* C1 witness: one operation in which a check saw a token with 1800 seconds left
\* and logged in, and a later check saw one with 7200 seconds left and did not.
C1_Witness_1800Relogin_7200Kept ==
    \E i, j \in Events :
        /\ IsCheck(i) /\ ~IsNone(Trace[i].token) /\ Remaining(i) = 1800
        /\ LoginFollows(i)
        /\ IsCheck(j) /\ ~IsNone(Trace[j].token) /\ Remaining(j) = 7200
        /\ ~LoginFollows(j)

\* The inverters of the account whose dynamic payload has a phase with a voltage.
WellFormed(serial) ==
    \E i \in DOMAIN DynamicPayload(serial).Phases :
        ~IsNone(DynamicPayload(serial).Phases[i].VoltageInstantaneousV)

\* Every request of the last operation was sent and answered well.
AllCallsSucceeded ==
    \A i \in Events : IsRequest(i) => (Trace[i].kind = "request" /\ Trace[i].out = "ok")

\* C2: a refresh of an account with at least one inverter, in which every vendor
\* call succeeds with a well-formed payload, completes and returns the maps.
C2_RefreshCompletes ==
    ( /\ lastOp.name = "get_redback_data"
      /\ Len(nodes) >= 1
      /\ \A i \in DOMAIN nodes : WellFormed(nodes[i])
      /\ AllCallsSucceeded )
    => (lastOp.result = "ok" /\ ~IsNone(lastOp.returned))

\* C3: a refresh called while the device-info refresh time is still more than
\* the threshold in the future rebuilds nothing and issues no vendor fetch.
C3_FreshRefreshDoesNothing ==
    ( /\ lastOp.name = "get_redback_data"
      /\ ~IsNone(lastOp.window)
      /\ Val(lastOp.window) > 10 )
    => (~lastOp.rebuilt /\ \A i \in Events : ~IsRequest(i))

\* Whether a list holds a record of device id.
Holds(list, id) == \E i \in DOMAIN list : list[i].device_id = id
InfoHolds(id) == \E i \in DOMAIN redback_device_info : redback_device_info[i].identifiers = id

\* The collections that hold a record of every inverter: which of them hold one
\* of the inverter serial.
Presence(serial) ==
    LET id == DeviceId(serial, InvSuffix)
    IN  << InfoHolds(id), Holds(redback_entities, id), Holds(redback_numbers, id),
           Holds(redback_selects, id), Holds(redback_schedule_datetime, id) >>

AllOrNothing(serial) ==
    \/ \A k \in 1..5 : Presence(serial)[k]
    \/ \A k \in 1..5 : ~Presence(serial)[k]

\* C4: a refresh that fails returns no maps and leaves the stored collections
\* with all of the records of every device or with none of them.
C4_FailedRefreshLeavesNoPartialSet ==
    (lastOp.name = "get_redback_data" /\ lastOp.result # "ok")
    => /\ IsNone(lastOp.returned)
       /\ \A i \in DOMAIN nodes : AllOrNothing(nodes[i])
       /\ \A i, j \in DOMAIN nodes : Presence(nodes[i]) = Presence(nodes[j])

\* C5: no portal operation ends with the portal session it opened still open.
C5_PortalSessionClosedOnEveryPath ==
    ( /\ lastOp.name \in {"test_portal_connection", "set_inverter_mode_portal"}
      /\ \E i \in Events : Trace[i].kind = "session" )
    => session2 # Some("open")

\* The classification of a response in the order of the contract.
Classified(resp) ==
    CASE resp.status # 200 -> "RedbackTechClientError"
      [] resp.status = 200 /\ ~resp.json -> "RedbackTechClientError"
      [] resp.status = 200 /\ resp.json /\ ~IsNone(resp.error)
           /\ Val(resp.error) \in {"invalid_client"} -> "AuthError"
      [] resp.status = 200 /\ resp.json /\ ~IsNone(resp.error)
           /\ Val(resp.error) \notin {"invalid_client"} -> "RedbackTechClientError"
      [] resp.status = 200 /\ resp.json /\ IsNone(resp.error) -> "ok"

\* C6: every API response is classified in order: a status other than 200 and a
\* body that is not JSON raise the client error, an error field raises AuthError
\* for an auth error code and the client error otherwise, and only a 200 JSON
\* response without an error field is returned; the exception ends the operation.
C6_ApiResponseClassification ==
    \A i \in Events :
        Trace[i].kind = "request" =>
            /\ Trace[i].out = Classified(Trace[i].resp)
            /\ Trace[i].out # "ok" => (i = Len(Trace) /\ lastOp.result = Trace[i].out)

\* C6 witness: a response with a status other than 200 whose JSON body carries an
\* auth error code was raised as the client error, not as AuthError.
C6_Witness_StatusBeforeAuthCode ==
    \E i \in Events :
        /\ Trace[i].kind = "request"
        /\ Trace[i].resp.status # 200 /\ Trace[i].resp.json
        /\ Trace[i].resp.error = Some("invalid_client")
        /\ lastOp.result = "RedbackTechClientError"

\* C7: no authenticated request is issued while the token is absent or has fewer
\* than 3600 seconds left unless a login was attempted before it in the operation.
C7_TokenCheckedBeforeEveryRequest ==
    \A i \in Events :
        (IsRequest(i) /\ ~IsLogin(i)) =>
            \/ Trace[i].valid
            \/ \E j \in Events : j < i /\ IsLogin(j)

\* The operations that stage a Control Setting.
ControlOps == {"update_inverter_control_values", "reset_inverter_start_time_to_now"}

\* C8: every operation other than update_inverter_control_values and
\* reset_inverter_start_time_to_now leaves the Control Setting of every device
\* that has one unchanged.
C8_ControlSettingsFrame ==
    [][ (ops' # ops /\ lastOp'.name \notin ControlOps) =>
            \A d \in DOMAIN inverter_control_settings :
                /\ d \in DOMAIN inverter_control_settings'
                /\ inverter_control_settings'[d] = inverter_control_settings[d] ]_vars

\* C8 witness: a refresh rebuilt the lists while a device held a staged duration
\* of 90 minutes and mode, and they are still held.
C8_Witness_RefreshKeepsStagedValues ==
    /\ lastOp.name = "get_redback_data" /\ lastOp.rebuilt
    /\ \E d \in DOMAIN inverter_control_settings :
          /\ inverter_control_settings[d].power_setting_duration = 90
          /\ Holds(redback_numbers, d)

\* The operations that write the selection of the device they name.
DeleteOps == {"delete_inverter_schedule", "delete_all_inverter_schedules"}

\* C9: a device's selection is none when it is first stored, is the id written
\* by a successful update_selected_schedule_id, is none after a delete operation
\* that names the device, and is left as it was by every other operation.
C9_SelectionFrame ==
    [][ ops' # ops =>
          /\ DOMAIN redback_schedule_selected \subseteq DOMAIN redback_schedule_selected'
          /\ \A d \in DOMAIN redback_schedule_selected' :
                IF /\ lastOp'.name = "update_selected_schedule_id"
                   /\ lastOp'.result = "ok" /\ lastOp'.args[1] = d
                THEN redback_schedule_selected'[d].schedule_id = Some(lastOp'.args[2])
                ELSE IF lastOp'.name \in DeleteOps /\ lastOp'.args[1] = d
                THEN IsNone(redback_schedule_selected'[d].schedule_id)
                ELSE IF d \in DOMAIN redback_schedule_selected
                THEN redback_schedule_selected'[d] = redback_schedule_selected[d]
                ELSE IsNone(redback_schedule_selected'[d].schedule_id) ]_vars

\* C9 witness: a refresh rebuilt the select list while a device had schedule 1
\* selected, and the selection is still schedule 1.
C9_Witness_RefreshKeepsSelection ==
    /\ lastOp.name = "get_redback_data" /\ lastOp.rebuilt
    /\ \E d \in DOMAIN redback_schedule_selected :
          /\ redback_schedule_selected[d].schedule_id = Some(1)
          /\ Holds(redback_selects, d)

\* No two records of a list share an entity id.
UniqueIds(list) ==
    \A i, j \in DOMAIN list : EntityId(list[i]) = EntityId(list[j]) => i = j

\* C10: after a refresh no two records of the entity list, the number list, the
\* select list or the datetime list share an entity id.
C10_EntityIdsUnique ==
    lastOp.name = "get_redback_data" =>
        /\ UniqueIds(redback_entities)
        /\ UniqueIds(redback_numbers)
        /\ UniqueIds(redback_selects)
        /\ UniqueIds(redback_schedule_datetime)

\* The values of the entities of device d named n in the entity list, in order.
RECURSIVE ValuesOf(_, _, _, _)
ValuesOf(list, i, d, n) ==
    IF i > Len(list) THEN <<>>
    ELSE (IF list[i].device_id = d /\ list[i].entity_name = n
          THEN <<list[i].value>> ELSE <<>>)
         \o ValuesOf(list, i + 1, d, n)

\* The stored schedule records with id k.
RecordsOf(k) == {i \in DOMAIN redback_schedules : redback_schedules[i].schedule_id = k}

\* C11: after the annotation entities of an inverter are built, the entity list
\* holds each of the five scheduled-annotation entities of the inverter exactly
\* once; they carry the selected schedule's start, end, duration, power and mode
\* when the selected id is among the stored schedules, and null, null, 0, 0 and
\* "Auto" otherwise.
C11_FiveAnnotationEntities ==
    (lastOp.name = "add_additional_entities" /\ lastOp.result = "ok") =>
        LET d == DeviceId(nodes[1], InvSuffix)
            sel == redback_schedule_selected[d].schedule_id
            found == ~IsNone(sel) /\ RecordsOf(Val(sel)) # {}
            rec == redback_schedules[CHOOSE i \in RecordsOf(Val(sel)) : TRUE]
        IN  /\ ValuesOf(redback_entities, 1, d, "scheduled_start_time")
                 = << IF found THEN Some(rec.start_time_utc) ELSE None >>
            /\ ValuesOf(redback_entities, 1, d, "scheduled_finish_time")
                 = << IF found THEN Some(rec.end_time) ELSE None >>
            /\ ValuesOf(redback_entities, 1, d, "scheduled_duration")
                 = << IF found THEN rec.duration ELSE 0 >>
            /\ ValuesOf(redback_entities, 1, d, "scheduled_power_w")
                 = << IF found THEN rec.power_w ELSE 0 >>
            /\ ValuesOf(redback_entities, 1, d, "scheduled_inverter_mode")
                 = << IF found THEN rec.inverter_mode ELSE "Auto" >>

\* The vendor holds no schedule for the inverter serial.
NoVendorSchedules(serial) == \A x \in vendor_schedules : x.SerialNumber # serial

\* A refresh in which every call was answered well, of an account whose payloads
\* are all well formed.
CleanRefresh ==
    /\ lastOp.name = "get_redback_data"
    /\ AllCallsSucceeded
    /\ \A i \in DOMAIN nodes : WellFormed(nodes[i])

\* The first two parts of C12 for the inverter serial: no schedule record, and a
\* schedule_id_selected select entity with no option.
NoScheduleRecords(serial) ==
    \A i \in DOMAIN redback_schedules : redback_schedules[i].serial_number # serial

EmptySelectOptions(serial) ==
    \E i \in DOMAIN redback_selects :
        /\ redback_selects[i].device_id = DeviceId(serial, InvSuffix)
        /\ redback_selects[i].entity_name = "schedule_id_selected"
        /\ redback_selects[i].options = <<>>

DefaultAnnotations(serial) ==
    LET d == DeviceId(serial, InvSuffix)
    IN  /\ ValuesOf(redback_entities, 1, d, "scheduled_start_time") = <<None>>
        /\ ValuesOf(redback_entities, 1, d, "scheduled_finish_time") = <<None>>
        /\ ValuesOf(redback_entities, 1, d, "scheduled_duration") = <<0>>
        /\ ValuesOf(redback_entities, 1, d, "scheduled_power_w") = <<0>>
        /\ ValuesOf(redback_entities, 1, d, "scheduled_inverter_mode") = <<"Auto">>

\* C12: after a refresh, an inverter for which the vendor returned no schedule
\* has no schedule record, a schedule_id_selected select entity with an empty
\* options list, and annotation entities with the values null, null, 0, 0, "Auto".
C12_ZeroSchedulesDefaults ==
    CleanRefresh =>
        \A i \in DOMAIN nodes :
            NoVendorSchedules(nodes[i]) =>
                /\ NoScheduleRecords(nodes[i])
                /\ EmptySelectOptions(nodes[i])
                /\ DefaultAnnotations(nodes[i])

\* The last refresh fetched the schedules of the inverter serial: its static and
\* dynamic payloads were fetched before, and its normalization followed.
SchedulesFetched(serial) ==
    /\ lastOp.name = "get_redback_data"
    /\ \E i \in Events :
          /\ Trace[i].kind = "request" /\ Trace[i].out = "ok"
          /\ Trace[i].endpoint = "API_SCHEDULE_BY_SERIALNUMBER"
          /\ Trace[i].target = Some(serial)

\* The net power of the phases of a dynamic payload that report a voltage.
RECURSIVE NetPhasePower(_, _)
NetPhasePower(phases, i) ==
    IF i > Len(phases) THEN 0
    ELSE (IF IsNone(phases[i].VoltageInstantaneousV) THEN 0
          ELSE phases[i].ActiveImportedPowerInstantaneouskW
                 - phases[i].ActiveExportedPowerInstantaneouskW)
         + NetPhasePower(phases, i + 1)

\* No inverter of the account with a battery shares the battery id of serial.
BatteryIdOwn(serial) ==
    \A j \in DOMAIN nodes :
        StaticPayload(nodes[j]).BatteryCount > 0 =>
            DeviceId(nodes[j], BatSuffix) # DeviceId(serial, BatSuffix)

Normalized ==
    /\ lastOp.name = "convert_responses_to_schedule_entities"
    /\ lastOp.result = "ok"

\* The minutes of a Duration of the wire, by its fields.
WireMinutes(w) == (IF w.dotted THEN w.days ELSE 0) * 1440 + w.hh * 60 + w.mm

\* C14: the normalizer turns each schedule's Duration, "D.HH:MM:SS" or
\* "HH:MM:SS", into days*1440 + hours*60 + minutes, one record per schedule.
C14_DurationMinutes ==
    Normalized =>
        /\ Len(redback_schedules) = Cardinality(vendor_schedules)
        /\ \A x \in vendor_schedules :
              \E k \in DOMAIN redback_schedules :
                  /\ redback_schedules[k].schedule_id = x.ScheduleId
                  /\ redback_schedules[k].duration = WireMinutes(x.Duration)

\* C14 witness: "0.02:15:00" became 135 minutes and "01:05:00" became 65.
C14_Witness_135And65 ==
    /\ Normalized
    /\ \E x, y \in vendor_schedules :
          /\ DurationText(x.Duration) = <<"0", ".", "0", "2", ":", "1", "5", ":", "0", "0">>
          /\ DurationText(y.Duration) = <<"0", "1", ":", "0", "5", ":", "0", "0">>
          /\ \E k, l \in DOMAIN redback_schedules :
                /\ redback_schedules[k].schedule_id = x.ScheduleId
                /\ redback_schedules[k].duration = 135
                /\ redback_schedules[l].schedule_id = y.ScheduleId
                /\ redback_schedules[l].duration = 65

\* Seconds in a minute: times of the model are in seconds.
SecondsPerMinute == 60

\* C15: every schedule record's end_time is the schedule's start time plus its
\* duration in minutes.
C15_EndTimeIsStartPlusDuration ==
    Normalized =>
        \A x \in vendor_schedules :
            \E k \in DOMAIN redback_schedules :
                /\ redback_schedules[k].schedule_id = x.ScheduleId
                /\ redback_schedules[k].start_time_utc = x.StartTimeUtc
                /\ redback_schedules[k].end_time =
                      x.StartTimeUtc + SecondsPerMinute * redback_schedules[k].duration

\* C15 witness: a schedule that starts at second 1200 and lasts "1.00:30:00",
\* 1470 minutes, has a record that ends at second 89400.
C15_Witness_EndsAfterOneDayAndHalfHour ==
    /\ Normalized
    /\ \E k \in DOMAIN redback_schedules :
          /\ redback_schedules[k].start_time_utc = 1200
          /\ redback_schedules[k].duration = 1470
          /\ redback_schedules[k].end_time = 89400

\* The last refresh fetched the config of the inverter serial: its battery
\* normalization followed.
ConfigFetched(serial) ==
    /\ lastOp.name = "get_redback_data"
    /\ \E i \in Events :
          /\ Trace[i].kind = "request" /\ Trace[i].out = "ok"
          /\ Trace[i].endpoint = "API_CONFIG_BY_SERIAL"
          /\ Trace[i].target = Some(serial)

\* The all-time counters of an inverter and of its battery: entity name and the
\* kWh of the dynamic payload.
InverterCounters(serial) ==
    { <<"pv_all_time_energy_mwh", DynamicPayload(serial).PvAllTimeEnergykWh>>,
      <<"export_all_time_energy_mwh", DynamicPayload(serial).ExportAllTimeEnergykWh>>,
      <<"import_all_time_energy_mwh", DynamicPayload(serial).ImportAllTimeEnergykWh>>,
      <<"load_all_time_energy_mwh", DynamicPayload(serial).LoadAllTimeEnergykWh>> }

BatteryCounters(serial) ==
    { <<"battery_charge_all_time_energy_mwh",
        DynamicPayload(serial).BatteryChargeAllTimeEnergykWh>>,
      <<"battery_discharge_all_time_energy_mwh",
        DynamicPayload(serial).BatteryDischargeAllTimeEnergykWh>> }

\* mwh is kwh divided by 1000, or null when kwh is null.
IsMWhOf(mwh, kwh) ==
    IF IsNone(kwh) THEN IsNone(mwh)
    ELSE /\ ~IsNone(mwh)
         /\ Val(mwh).den > 0
         /\ Val(mwh).num * 1000 = Val(kwh) * Val(mwh).den

\* The entity list holds one entity for each counter, with the counter in MWh.
CountersInMWh(counters, device_id) ==
    \A p \in counters :
        /\ Len(ValuesOf(redback_entities, 1, device_id, p[1])) = 1
        /\ IsMWhOf(ValuesOf(redback_entities, 1, device_id, p[1])[1], p[2])

\* C16: once a refresh normalized an inverter, each of its four all-time energy
\* entities is the payload's kWh divided by 1000, or null for a null counter; the
\* same holds of the two battery counters once its battery was normalized.
C16_AllTimeCountersInMWh ==
    \A i \in DOMAIN nodes :
        /\ SchedulesFetched(nodes[i]) =>
              CountersInMWh(InverterCounters(nodes[i]), DeviceId(nodes[i], InvSuffix))
        /\ ConfigFetched(nodes[i]) =>
              CountersInMWh(BatteryCounters(nodes[i]), DeviceId(nodes[i], BatSuffix))

\* C16 witness: a refresh normalized the inverter with a battery: 1500 kWh of PV
\* became 1.5 MWh, a load counter of 0 stayed 0 and the null discharge counter
\* stayed null.
C16_Witness_1500kWhAndNull ==
    \E i \in DOMAIN nodes :
        /\ ConfigFetched(nodes[i])
        /\ ValuesOf(redback_entities, 1, DeviceId(nodes[i], InvSuffix),
                    "pv_all_time_energy_mwh") = <<Some([num |-> 1500, den |-> 1000])>>
        /\ ValuesOf(redback_entities, 1, DeviceId(nodes[i], InvSuffix),
                    "load_all_time_energy_mwh") = <<Some([num |-> 0, den |-> 1000])>>
        /\ ValuesOf(redback_entities, 1, DeviceId(nodes[i], BatSuffix),
                    "battery_discharge_all_time_energy_mwh") = <<None>>

\* The site load of an inverter by its payloads: net phase power plus PV power,
\* plus the battery power when it has a battery.  Powers are in watts, so three
\* decimals of a kW are kept.
SiteLoadOf(serial) ==
    NetPhasePower(DynamicPayload(serial).Phases, 1)
      + DynamicPayload(serial).PvPowerInstantaneouskW
      + (IF StaticPayload(serial).BatteryCount > 0
         THEN DynamicPayload(serial).BatteryPowerNegativeIsChargingkW ELSE 0)

\* C17: after a refresh in which every call succeeded with well-formed payloads,
\* each inverter has an inverter_site_load_instantaneous_kw entity whose value is
\* its own net phase power plus PV power, plus battery power when it has a battery.
C17_SiteLoadEntityValue ==
    CleanRefresh =>
        \A i \in DOMAIN nodes :
            \E k \in DOMAIN redback_entities :
                /\ redback_entities[k].device_id = DeviceId(nodes[i], InvSuffix)
                /\ redback_entities[k].entity_name = "inverter_site_load_instantaneous_kw"
                /\ redback_entities[k].value = SiteLoadOf(nodes[i])

\* C18: no refresh ends in a division error, whatever the phases of the dynamic
\* payloads are.
C18_NoDivisionByZeroPhases ==
    lastOp.name = "get_redback_data" => lastOp.result # "ZeroDivisionError"

\* The operations of the control surface that read a device's Control Setting.
SettingReaders ==
    { "update_inverter_control_values", "reset_inverter_start_time_to_now",
      "set_inverter_schedule", "set_inverter_mode_portal" }

\* The fields of a Control Setting.
SettingFields ==
    {"power_setting_mode", "power_setting_watts", "power_setting_duration", "start_time"}

\* C19: an operation of the control surface on a device id that has no Control
\* Setting yet does not fail for the missing setting, and leaves the device with
\* a Control Setting of all four fields.
C19_LazyInitOnFirstReference ==
    [][ ( /\ ops' # ops
          /\ lastOp'.name \in SettingReaders
          /\ lastOp'.args[1] \notin DOMAIN inverter_control_settings ) =>
            /\ lastOp'.result \notin {"AttributeError", "KeyError"}
            /\ lastOp'.args[1] \in DOMAIN inverter_control_settings'
            /\ DOMAIN inverter_control_settings'[lastOp'.args[1]] = SettingFields ]_vars

\* C20: the schedule normalizer run a second time on the payload it was just
\* run on succeeds and builds the same schedule records, durations and end times
\* included.
C20_SecondRunOnSamePayload ==
    [][ (ops' # ops /\ lastOp'.name = "convert_responses_to_schedule_entities_again") =>
            /\ lastOp'.result = "ok"
            /\ redback_schedules' = redback_schedules ]_vars

\* The portal requests of the last operation.
IsPortal(i) == Trace[i].kind = "portal"

\* carried is the token of the page fetched by the portal request at j of the
\* last operation, the one that made the count of operations ops.
FetchedBy(j, step, page, carried) ==
    /\ IsPortal(j) /\ Trace[j].step = step
    /\ ~IsNone(carried)
    /\ Val(carried).page = page
    /\ Val(carried).op = ops - 1

\* C21: a login POST carries the token of the login page fetched before it in
\* the same operation, and a mode-set POST the token of the configuration page
\* fetched in the same operation after the login POST.
C21_PortalPostsCarryPageToken ==
    \A i \in Events :
        IsPortal(i) =>
            /\ Trace[i].step = "login_post" =>
                  \E j \in 1..(i - 1) :
                      FetchedBy(j, "login_get", "login", Trace[i].token)
            /\ Trace[i].step = "set_post" =>
                  \E j \in 1..(i - 1), l \in 1..(i - 1) :
                      /\ IsPortal(l) /\ Trace[l].step = "login_post" /\ l < j
                      /\ FetchedBy(j, "configure_get", "configure", Trace[i].token)

\* C21 witness: a mode set that began while the token of an earlier portal
\* operation was still held posted the mode with the token of its own
\* configuration page.
C21_Witness_ModeSetAfterEarlierLogin ==
    /\ lastOp.name = "set_inverter_mode_portal" /\ lastOp.result = "ok"
    /\ \E i \in Events :
          /\ Trace[i].kind = "session"
          /\ ~IsNone(Trace[i].GAFToken)
          /\ Val(Trace[i].GAFToken).op < ops - 1
    /\ \E i \in Events :
          /\ IsPortal(i) /\ Trace[i].step = "set_post"
          /\ Val(Trace[i].token).page = "configure"
          /\ Val(Trace[i].token).op = ops - 1

\* C22: the Duration of the schedule that set_inverter_schedule creates has
\* hours below 24 and minutes below 60, and the normalizer's rule, days*1440 +
\* hours*60 + minutes, gives back the staged duration.
C22_DurationRoundTrip ==
    [][ (ops' # ops /\ lastOp'.name = "set_inverter_schedule" /\ lastOp'.result = "ok") =>
            \A x \in vendor_schedules' \ vendor_schedules :
                /\ x.Duration.dotted
                /\ x.Duration.hh < 24 /\ x.Duration.mm < 60
                /\ ParseDuration(x.Duration) =
                      inverter_control_settings[lastOp'.args[1]].power_setting_duration ]_vars

\* The last token check of the operation before position i.
LatestCheckBefore(i) ==
    CHOOSE j \in Events :
        /\ j < i /\ IsCheck(j)
        /\ \A m \in Events : (m < i /\ IsCheck(m)) => m <= j

\* C23: every authenticated request that follows a token check of its operation
\* carries in its Authorization header the token held after that check.
C23_HeaderCarriesCheckedToken ==
    \A i \in Events :
        (IsRequest(i) /\ ~IsLogin(i) /\ \E j \in Events : j < i /\ IsCheck(j)) =>
            Trace[i].auth = HeldAfter(LatestCheckBefore(i))[1]

\* The time of the last operation, when it began with a token check.
OpTime == Trace[1].now

\* The phase-voltage aggregate of the dynamic payload of serial at time t.
AggregateAt(t, serial) ==
    TotalVoltage(PhaseSums(DynamicPayloadAt(t, serial).Phases, 1).voltage,
                 PhaseSums(DynamicPayloadAt(t, serial).Phases, 1).count)

\* The last of a sequence.
Last(q) == q[Len(q)]

\* C25: once a refresh normalized a battery, the phase-voltage aggregate stored
\* for its inverter is the one of the dynamic payload of this refresh, and the
\* battery's derived charging current was computed from it.
C25_BatteryUsesThisCycleVoltage ==
    \A i \in DOMAIN nodes :
        ConfigFetched(nodes[i]) =>
            /\ IsCheck(1)
            /\ redback_temp_voltage[nodes[i]] = AggregateAt(OpTime, nodes[i])
            /\ Last(ValuesOf(redback_entities, 1, DeviceId(nodes[i], BatSuffix),
                             "battery_current_negative_is_charging_a"))
                 = RoundDiv(DynamicPayload(nodes[i]).BatteryPowerNegativeIsChargingkW * 100,
                            AggregateAt(OpTime, nodes[i]))

\* C25 witness: a refresh at time 1800 of a client that had logged in at time 0
\* normalized the battery with the aggregate of the voltages of time 1800, which
\* is not the aggregate of time 0.
C25_Witness_LaterCycleNewVoltage ==
    \E i \in DOMAIN nodes :
        /\ ConfigFetched(nodes[i])
        /\ IsCheck(1) /\ OpTime = TimeStep
        /\ ~IsNone(Trace[1].token) /\ Val(Trace[1].token).issued = 0
        /\ redback_temp_voltage[nodes[i]] = AggregateAt(TimeStep, nodes[i])
        /\ AggregateAt(TimeStep, nodes[i]) # AggregateAt(0, nodes[i])

\* The operations that change something at the vendor for a device id.
MutationOps ==
    { "delete_inverter_schedule", "delete_all_inverter_schedules",
      "set_inverter_schedule", "set_inverter_mode_portal" }

\* The serial numbers a mutation for device id d may name: the one of the first
\* device-info record with identifier d, or, without such a record, those of the
\* inverters whose inverter or battery id is d.
SerialsOf(d) ==
    IF ~IsNone(find_device(redback_device_info, 1, d))
    THEN {Val(find_device(redback_device_info, 1, d)).serial_number}
    ELSE {x \in Serials : DeviceId(x, InvSuffix) = d \/ DeviceId(x, BatSuffix) = d}

\* C26: every vendor call of a mutation for device id d that names a serial
\* number names the one of the device-info record with identifier d, and without
\* such a record it names no other device's serial number.
C26_MutationTargetsItsDevice ==
    lastOp.name \in MutationOps =>
        \A i \in Events :
            (Trace[i].kind \in {"request", "refused", "portal"} /\ ~IsNone(Trace[i].target)) =>
                Val(Trace[i].target) \in SerialsOf(lastOp.args[1])

\* C27: the value of every schedule_id_selected select entity is none or one of
\* the entity's options.
C27_SelectedIsAnOption ==
    \A i \in DOMAIN redback_selects :
        redback_selects[i].entity_name = "schedule_id_selected" =>
            \/ IsNone(redback_selects[i].value)
            \/ \E k \in DOMAIN redback_selects[i].options :
                  redback_selects[i].options[k] = Val(redback_selects[i].value)

\* C29: close_sessions succeeds in every state and leaves the API session
\* closed and no portal session open.
C29_CloseSessionsSucceeds ==
    lastOp.name = "close_sessions" =>
        /\ lastOp.result = "ok"
        /\ session1 = "closed"
        /\ session2 # Some("open")

\* The per-serial requests of the last operation's trace.
PerSerialRequests ==
    {i \in Events : Trace[i].kind = "request" /\ Trace[i].endpoint \in PerSerialEndpoints}

\* The serials the lookups of the last operation found.
LookedUp == {Trace[i].found : i \in {j \in Events : Trace[j].kind = "lookup"}}

\* C30: a per-serial fetcher sends its request for the serial it was called
\* with, and delete_inverter_schedule for the serial of the record it found,
\* also when the token check logged in while another call ran.
C30_RequestForInvokedSerial ==
    /\ lastOp.name \in {FetcherOf[e] : e \in DOMAIN FetcherOf} =>
          \A i \in PerSerialRequests : Trace[i].target = Some(lastOp.args[1])
    /\ lastOp.name = "delete_inverter_schedule" /\ LookedUp # {None} =>
          \A i \in PerSerialRequests : Trace[i].target \in LookedUp

\* The six lists _create_device_info rebuilds.
Lists ==
    << redback_entities, redback_device_info, redback_numbers, redback_selects,
       redback_schedule_datetime, redback_schedules >>

\* The six lists as c holds them.
ListsOf(c) ==
    << c.redback_entities, c.redback_device_info, c.redback_numbers, c.redback_selects,
       c.redback_schedule_datetime, c.redback_schedules >>

\* The lists a single refresh that runs alone leaves.
SequentialLists == ListsOf(get_redback_data(Self, GoodEnv))

\* Every call made so far, finished or in progress, is a refresh.
OnlyRefreshes ==
    /\ lastOp.name \in {"init", "get_redback_data"}
    /\ \A t \in TaskIds : tasks[t].op \in {"idle", "get_redback_data"}

\* The requests of the call that ends in this step were all answered well.
AllAnswered ==
    \A i \in DOMAIN lastOp'.trace :
        lastOp'.trace[i].kind = "request" => lastOp'.trace[i].out = "ok"

\* C24: when refreshes are the only calls and their requests are answered, a
\* refresh that ends, overlapped by another or not, leaves the lists a single
\* refresh that runs alone from here leaves: every record once, none lost,
\* none of another round.
C24_RefreshLeavesSequentialLists ==
    [][ (ops' # ops /\ OnlyRefreshes /\ lastOp'.name = "get_redback_data"
         /\ AllAnswered)
        => Lists' = SequentialLists ]_vars

\* The stored token and expiry are both absent, or those of one login answer.
Paired ==
    \/ IsNone(token) /\ IsNone(token_expiration)
    \/ /\ ~IsNone(token)
       /\ ~IsNone(token_expiration)
       /\ Val(token_expiration) = Val(token).issued + Val(token).expires_in

\* The call that ends in this step ends in a login that was not answered well.
LoginFails ==
    /\ ops' # ops
    /\ Len(lastOp'.trace) > 0
    /\ lastOp'.trace[Len(lastOp'.trace)].kind = "request"
    /\ lastOp'.trace[Len(lastOp'.trace)].endpoint = "API_AUTH"
    /\ lastOp'.trace[Len(lastOp'.trace)].out # "ok"

\* C28: a login that is not answered well leaves the token and its expiry as
\* they were, and the token and the expiry held are always those of one login
\* answer, also when the logins of two calls overlap.
C28_TokenAndExpiryOfOneLogin ==
    [][ /\ Paired /\ Paired'
        /\ LoginFails => UNCHANGED <<token, token_expiration>> ]_vars

\* A call found no token and logged in, another call's login stored a token
\* meanwhile, and then this call's login failed.
C28_Witness_LoginFailsAfterOverlappingLogin ==
    /\ ~IsNone(token)
    /\ Len(Trace) > 1
    /\ Trace[Len(Trace)].kind = "request"
    /\ Trace[Len(Trace)].endpoint = "API_AUTH"
    /\ Trace[Len(Trace)].out # "ok"
    /\ Trace[Len(Trace) - 1].kind = "check"
    /\ IsNone(Trace[Len(Trace) - 1].token)

====
